---- MODULE Spec2Model ----
(***************************************************************************)
(* Model of package xcache: the composite cache Multi over an ordered      *)
(* list of Cache backends (Mock, Memory, Redis), and the Memory and Redis  *)
(* caches that rebuild their client when the configuration changes.       *)
(*                                                                         *)
(* One caller runs one Multi operation at a time (a second goroutine       *)
(* joins it in the last specification).  Every call that Multi             *)
(* makes on a backend is one step, so that whatever else happens to the    *)
(* backends (time passing, keys expiring) can fall between two calls of    *)
(* the same operation.  `log` records the backend calls of the operation   *)
(* in progress, which is what the Mock's call counters and callbacks       *)
(* observe.                                                                *)
(*                                                                         *)
(* Durations are time.Duration values: integer counts of nanoseconds.      *)
(***************************************************************************)
EXTENDS Integers, Sequences, FiniteSets, TLC

VARIABLES
    caches,   \* Multi.caches: the backend list given to NewMulti
    store,    \* per backend, the entries it holds (Memory / Redis backends)
    pc,       \* position of the caller inside the Multi operation
    op,       \* the operation in progress and its arguments
    idx,      \* loop variable idx of the operation's scan over caches
    i,        \* loop variable i of the read-repair loop of Load
    mErr,     \* the *xerr.MultiError under construction
    val,      \* Load: the value returned by the winning backend
    ttl,      \* Load: the ttl returned by the winning backend
    mStats,   \* Stats: the running sum
    ret,      \* what the finished operation returned
    log,      \* backend calls made by the operation in progress
    kind,     \* the reloadable cache under test: "Memory" or "Redis"
    config,   \* the xconf.Config values the observer reads
    handle,   \* the fields of the Memory / Redis6 / Redis7 struct
    mu,       \* cache.mu, the sync.RWMutex of the struct
    insts,    \* every client built so far (freecache.Cache / UniversalClient)
    proc,     \* the goroutines calling Save / Load / TTL / Stats / Close
    rc,       \* the goroutine running onConfigChange
    sw,       \* a StatsWatcher: its Once values, ticker, closed channel, wg
    task,     \* the goroutine running watcher.watchAsync
    users,    \* the goroutines calling StatsWatcher.Watch and Close
    trace,    \* the Stats calls and sink invocations the watcher has made
    srv,      \* a Redis server: the key's entry and the INFO report
    answer,   \* what the last call on the Redis6 / Redis7 cache returned
    cluster,  \* a Redis cluster and the Stats call in progress on it
    saver     \* a second goroutine, inside Multi.Save

\* The variables of Multi and its caller, and those of a reloadable cache.
mvars == <<caches, store, pc, op, idx, i, mErr, val, ttl, mStats, ret, log>>

hvars == <<kind, config, handle, mu, insts, proc, rc>>

\* The variables of a StatsWatcher, and those of a Redis cache and its server.
wvars == <<sw, task, users, trace>>

rvars == <<srv, answer>>

\* The variables of a Stats call on a cluster, and of a second Multi caller.
cvars == <<cluster, saver>>

vars == <<caches, store, pc, op, idx, i, mErr, val, ttl, mStats, ret, log,
          kind, config, handle, mu, insts, proc, rc,
          sw, task, users, trace, srv, answer, cluster, saver>>

(***************************************************************************)
(* Bounds and inputs                                                       *)
(***************************************************************************)
NumCaches == 3

Second == 1000000000

Keys == {"k1", "k2"}

\* Keys held by the storing backends (Memory, Redis).
StoreKeys == {"k1"}

NilVal == "nil"

Values == {"v1", "v2"}

\* A value larger than 1/1024 of the Memory cache size (freecache refuses it).
LargeValue == "large"

\* Whole-second lifetimes; 2 s is the largest whose nanosecond count and
\* the arithmetic on it stay inside 32-bit integers.
Lifetimes == {1, 2}

NoExpire == 0

\* Expire arguments given to Save: delete, no expiry, whole seconds.
Expires == {-1, NoExpire} \cup {s * Second : s \in Lifetimes}

\* What a Mock's ttlCallback may return together with a nil error.
MockTTLs == {-1, NoExpire} \cup {s * Second : s \in Lifetimes}

(***************************************************************************)
(* Errors                                                                  *)
(***************************************************************************)
Nil == [kind |-> "nil", src |-> 0, errs |-> <<>>]

ErrNotFound == [kind |-> "ErrNotFound", src |-> 0, errs |-> <<>>]

\* The error a failing call on backend b returns (one distinct error value
\* per backend, as in the tests' expectedErr1, expectedErr2).
BackendErr(b) == [kind |-> "backend", src |-> b, errs |-> <<>>]

\* (*xerr.MultiError).Add: a nil receiver starts a new collection.
Add(m, err) == IF err = Nil THEN m ELSE Append(m, err)

\* (*xerr.MultiError).ErrOrNil: nil when nothing was added.
ErrOrNil(m) == IF m = <<>> THEN Nil ELSE [kind |-> "multi", src |-> 0, errs |-> m]

\* errors.Is(err, target), through MultiError's Is.
ErrorsIs(err, target) ==
    \/ err = target
    \/ /\ err.kind = "multi"
       /\ \E j \in 1..Len(err.errs) : err.errs[j] = target

(***************************************************************************)
(* Stats                                                                   *)
(***************************************************************************)
ZeroStats ==
    [Memory |-> 0, MaxMemory |-> 0, Hits |-> 0, Misses |-> 0,
     Keys |-> 0, Expired |-> 0, Evicted |-> 0]

\* What a backend's Stats may report.
StatsValues ==
    { ZeroStats,
      [Memory |-> 1, MaxMemory |-> 2, Hits |-> 3, Misses |-> 4,
       Keys |-> 5, Expired |-> 6, Evicted |-> 7],
      [Memory |-> 2, MaxMemory |-> 2, Hits |-> 10, Misses |-> 0,
       Keys |-> 1, Expired |-> 0, Evicted |-> 0] }

(***************************************************************************)
(* Stored entries                                                          *)
(***************************************************************************)
\* exp: remaining lifetime in whole seconds, 0 for an entry that does not expire.
NoEntry == [has |-> FALSE, val |-> NilVal, exp |-> 0]

Entry(v, e) == [has |-> TRUE, val |-> v, exp |-> e]

EmptyStore == [k \in StoreKeys |-> NoEntry]

(***************************************************************************)
(* Backends.  Each operator gives the set of outcomes one call may have:   *)
(* the returned error, value and ttl, and the backend's store afterwards.  *)
(***************************************************************************)
Outcome(err, v, t, st) == [err |-> err, val |-> v, ttl |-> t, st |-> st]

\* Mock: the callback decides; the Mock itself stores nothing.
MockSave(b, st) ==
    { Outcome(e, NilVal, 0, st) : e \in {Nil, BackendErr(b)} }

MockLoad(b, st) ==
    { Outcome(Nil, v, 0, st) : v \in Values }
        \cup { Outcome(e, NilVal, 0, st) : e \in {ErrNotFound, BackendErr(b)} }

MockTTL(b, st) ==
    { Outcome(Nil, NilVal, t, st) : t \in MockTTLs }
        \cup { Outcome(BackendErr(b), NilVal, -1, st) }

\* Memory over freecache: expire is cut to whole seconds, a positive expire
\* below one second becomes one second; freecache refuses a large entry.
\* Mutant: NoExpire too is taken for an expire below one second.
expireSeconds_NoExpireAsOne(expire) ==
    IF expire \div Second = 0 THEN 1 ELSE expire \div Second

\* Mutant: the expire is cut to whole seconds and nothing else.
expireSeconds_Truncates(expire) == expire \div Second

expireSeconds(expire) ==
    IF expire > 0 /\ expire \div Second = 0 THEN 1 ELSE expire \div Second

\* Mutant: a negative expire is stored as the shortest lifetime.
MemorySave_StoresNegative(b, st, key, value, expire) ==
    IF value = LargeValue
    THEN { Outcome(BackendErr(b), NilVal, 0, st) }
    ELSE { Outcome(Nil, NilVal, 0,
                   [st EXCEPT ![key] = Entry(value, IF expire < 0 THEN 1
                                                    ELSE expireSeconds(expire))]) }

MemorySave(b, st, key, value, expire) ==
    IF expire < 0
    THEN { Outcome(Nil, NilVal, 0, [st EXCEPT ![key] = NoEntry]) }
    ELSE IF value = LargeValue
         THEN { Outcome(BackendErr(b), NilVal, 0, st) }
         ELSE { Outcome(Nil, NilVal, 0,
                        [st EXCEPT ![key] = Entry(value, expireSeconds(expire))]) }

MemoryLoad(st, key) ==
    IF st[key].has
    THEN { Outcome(Nil, st[key].val, 0, st) }
    ELSE { Outcome(ErrNotFound, NilVal, 0, st) }

\* freecache's TTL is a count of seconds; it is returned as time.Duration(ttl).
MemoryTTL(st, key) ==
    IF st[key].has
    THEN { Outcome(Nil, NilVal, st[key].exp, st) }
    ELSE { Outcome(Nil, NilVal, -1, st) }

\* Redis6 / Redis7 over a Redis server: any command may fail (I/O).
redisTTLNoExpire == -1

\* Whole seconds of a lifetime, rounded up.
RedisSeconds(expire) ==
    expire \div Second + (IF expire % Second > 0 THEN 1 ELSE 0)

RedisSave(b, st, key, value, expire) ==
    { Outcome(BackendErr(b), NilVal, 0, st) }
        \cup { Outcome(Nil, NilVal, 0,
                 IF expire < 0
                 THEN [st EXCEPT ![key] = NoEntry]
                 ELSE [st EXCEPT ![key] = Entry(value, RedisSeconds(expire))]) }

RedisLoad(b, st, key) ==
    { Outcome(BackendErr(b), NilVal, 0, st) }
        \cup { IF st[key].has
               THEN Outcome(Nil, st[key].val, 0, st)
               ELSE Outcome(ErrNotFound, NilVal, 0, st) }

\* The server's reply to TTL: -2 no such key, -1 no expiry, else the lifetime.
RedisTTLReply(st, key) ==
    IF ~st[key].has THEN -2
    ELSE IF st[key].exp = 0 THEN -1
    ELSE st[key].exp * Second

\* Mutant: a reply of 0 is returned as it is.
RedisTTLResult_ZeroAsIs(err, reply) ==
    IF err # Nil THEN [ttl |-> -1, err |-> err]
    ELSE IF reply = redisTTLNoExpire THEN [ttl |-> NoExpire, err |-> Nil]
    ELSE [ttl |-> reply, err |-> Nil]

RedisTTLResult(err, reply) ==
    IF err # Nil \/ reply = 0 THEN [ttl |-> -1, err |-> err]
    ELSE IF reply = redisTTLNoExpire THEN [ttl |-> NoExpire, err |-> Nil]
    ELSE [ttl |-> reply, err |-> Nil]

RedisTTL(b, st, key) ==
    { Outcome(RedisTTLResult(e, r).err, NilVal, RedisTTLResult(e, r).ttl, st) :
        <<e, r>> \in { <<BackendErr(b), 0>>, <<Nil, RedisTTLReply(st, key)>> } }

\* Dynamic dispatch on the Cache interface.
CacheSave(b, key, value, expire) ==
    CASE caches[b] = "Mock"   -> MockSave(b, store[b])
      [] caches[b] = "Memory" -> MemorySave(b, store[b], key, value, expire)
      [] caches[b] = "Redis"  -> RedisSave(b, store[b], key, value, expire)

CacheLoad(b, key) ==
    CASE caches[b] = "Mock"   -> MockLoad(b, store[b])
      [] caches[b] = "Memory" -> MemoryLoad(store[b], key)
      [] caches[b] = "Redis"  -> RedisLoad(b, store[b], key)

CacheTTL(b, key) ==
    CASE caches[b] = "Mock"   -> MockTTL(b, store[b])
      [] caches[b] = "Memory" -> MemoryTTL(store[b], key)
      [] caches[b] = "Redis"  -> RedisTTL(b, store[b], key)

\* Stats of a backend: the report, or an error.
CacheStats(b) ==
    { [err |-> Nil, stats |-> s] : s \in StatsValues }
        \cup { [err |-> BackendErr(b), stats |-> ZeroStats] }

(***************************************************************************)
(* Multi                                                                   *)
(***************************************************************************)
Call(name, b, key, value, expire, out) ==
    [call |-> name, idx |-> b, key |-> key, value |-> value, expire |-> expire,
     err |-> out.err, val |-> out.val, ttl |-> out.ttl, stats |-> ZeroStats]

NoOp == [name |-> "none", key |-> "k1", value |-> NilVal, expire |-> 0]

NoRet == [val |-> NilVal, err |-> Nil, ttl |-> 0, stats |-> ZeroStats]

\* Keys and values the caller uses: the storing backends hold one key.
CallKeys == IF caches[1] = "Mock" THEN Keys ELSE StoreKeys

CallValues == IF caches[1] = "Mock" THEN Values ELSE Values \cup {LargeValue}

Idle == pc \in {"idle", "done"}

\* A call of a Multi method: locals take their zero values.
Begin(name, key, value, expire) ==
    /\ Idle
    /\ pc' = name
    /\ op' = [name |-> name, key |-> key, value |-> value, expire |-> expire]
    /\ idx' = 1
    /\ i' = 0
    /\ mErr' = <<>>
    /\ val' = NilVal
    /\ ttl' = 0
    /\ mStats' = ZeroStats
    /\ ret' = NoRet
    /\ log' = <<>>
    /\ UNCHANGED <<caches, store>>
    /\ UNCHANGED <<hvars, wvars, rvars, cvars>>

CallSave ==
    \E key \in CallKeys, value \in CallValues, expire \in Expires :
        Begin("Save", key, value, expire)

CallLoad == \E key \in CallKeys : Begin("Load", key, NilVal, 0)

CallTTL == \E key \in CallKeys : Begin("TTL", key, NilVal, 0)

CallStats == \E key \in {"k1"} : Begin("Stats", key, NilVal, 0)

\* Multi.Save: one iteration of the loop over cache.caches; the last one
\* returns mErr.ErrOrNil().
\* Mutant: only the latest error is kept.
SaveAdd_KeepsLast(m, err) == IF err # Nil THEN <<err>> ELSE m

SaveAdd(m, err) == IF err # Nil THEN Add(m, err) ELSE m

\* Mutant: the loop is left at the first failing backend.
SaveMore_StopsOnError(b, err) == b < Len(caches) /\ err = Nil

\* Whether the loop goes on after backend b returned err: it has no break.
SaveMore(b, err) == b < Len(caches)

SaveReturn(m) == [NoRet EXCEPT !.err = ErrOrNil(m)]

MultiSave ==
    /\ pc = "Save"
    /\ \E out \in CacheSave(idx, op.key, op.value, op.expire) :
        /\ store' = [store EXCEPT ![idx] = out.st]
        /\ log' = Append(log, Call("Save", idx, op.key, op.value, op.expire, out))
        /\ mErr' = SaveAdd(mErr, out.err)
        /\ IF SaveMore(idx, out.err)
           THEN /\ idx' = idx + 1
                /\ UNCHANGED <<pc, ret>>
           ELSE /\ pc' = "done"
                /\ ret' = SaveReturn(mErr')
                /\ UNCHANGED idx
    /\ UNCHANGED <<caches, op, i, val, ttl, mStats>>
    /\ UNCHANGED <<hvars, wvars, rvars, cvars>>

\* Multi.Load, the scan: c.Load on caches[idx].
\* Mutant: only the latest recorded error is returned.
LoadMissReturn_LastOnly(m) ==
    IF m = <<>>
    THEN [NoRet EXCEPT !.err = ErrNotFound]
    ELSE [NoRet EXCEPT !.err = m[Len(m)]]

LoadMissReturn(m) ==
    IF ErrOrNil(m) = Nil
    THEN [NoRet EXCEPT !.err = ErrNotFound]
    ELSE [NoRet EXCEPT !.err = ErrOrNil(m)]

\* Mutant: the errors recorded before the hit are returned with the value.
LoadHitReturn_KeepsErrors(v) == [NoRet EXCEPT !.val = v, !.err = ErrOrNil(mErr)]

LoadHitReturn(v) == [NoRet EXCEPT !.val = v]

\* The error recorded for a failed c.Load: ErrNotFound is skipped.
\* Mutant: ErrNotFound is recorded like any other error.
LoadAdd_RecordsNotFound(m, err) == Add(m, err)

LoadAdd(m, err) == IF ErrorsIs(err, ErrNotFound) THEN m ELSE Add(m, err)

\* Whether a hit at index b (1-based) saves the key upfront.
\* Mutant: a hit in the first backend is repaired too.
SaveUpfront_Always(b) == b >= 1

SaveUpfront(b) == b > 1

MultiLoad ==
    /\ pc = "Load"
    /\ \E out \in CacheLoad(idx, op.key) :
        /\ store' = [store EXCEPT ![idx] = out.st]
        /\ log' = Append(log, Call("Load", idx, op.key, NilVal, 0, out))
        /\ IF out.err = Nil
           THEN /\ val' = out.val
                /\ IF SaveUpfront(idx)
                   THEN /\ pc' = "LoadTTL"
                        /\ UNCHANGED ret
                   ELSE /\ pc' = "done"
                        /\ ret' = LoadHitReturn(out.val)
                /\ UNCHANGED <<idx, mErr>>
           ELSE /\ mErr' = LoadAdd(mErr, out.err)
                /\ IF idx < Len(caches)
                   THEN /\ idx' = idx + 1
                        /\ UNCHANGED <<pc, ret>>
                   ELSE /\ pc' = "done"
                        /\ ret' = LoadMissReturn(mErr')
                        /\ UNCHANGED idx
                /\ UNCHANGED val
    /\ UNCHANGED <<caches, op, i, ttl, mStats>>
    /\ UNCHANGED <<hvars, wvars, rvars, cvars>>

\* Multi.Load, after a hit at idx > 0: c.TTL on the winning backend.
\* Mutant: the repair starts at the winning backend itself.
RepairFrom_Winner(b) == b

\* Mutant: the repair skips the backend next to the winning one.
RepairFrom_Skip(b) == b - 2

\* First index of the read-repair loop after a hit at index b.
RepairFrom(b) == b - 1

\* Mutant: the write-backs are made whatever the TTL query returned.
RepairAfter_Always(errTTL) == TRUE

\* `errTTL == nil`: the write-backs are made only after a TTL query that
\* succeeded.
RepairAfter(errTTL) == errTTL = Nil

MultiLoadTTL ==
    /\ pc = "LoadTTL"
    /\ \E out \in CacheTTL(idx, op.key) :
        /\ store' = [store EXCEPT ![idx] = out.st]
        /\ log' = Append(log, Call("TTL", idx, op.key, NilVal, 0, out))
        /\ IF RepairAfter(out.err)
           THEN /\ ttl' = out.ttl
                /\ i' = RepairFrom(idx)
                /\ IF RepairFrom(idx) >= 1
                   THEN /\ pc' = "LoadSave"
                        /\ UNCHANGED ret
                   ELSE /\ pc' = "done"
                        /\ ret' = LoadHitReturn(val)
           ELSE /\ pc' = "done"
                /\ ret' = LoadHitReturn(val)
                /\ UNCHANGED <<ttl, i>>
    /\ UNCHANGED <<caches, op, idx, mErr, val, mStats>>
    /\ UNCHANGED <<hvars, wvars, rvars, cvars>>

\* Multi.Load, the read-repair loop: cache.caches[i].Save, error discarded.
\* Mutant: a write-back that fails ends the loop.
RepairMore_StopsOnError(n, err) == n - 1 >= 1 /\ err = Nil

\* `for i := idx - 1; i >= 0; i--` with `_ = ...Save(...)`: after the
\* write-back on backend n the loop goes on while a lower backend is left,
\* whatever the Save returned.
RepairMore(n, err) == n - 1 >= 1

MultiLoadSave ==
    /\ pc = "LoadSave"
    /\ \E out \in CacheSave(i, op.key, val, ttl) :
        /\ store' = [store EXCEPT ![i] = out.st]
        /\ log' = Append(log, Call("Save", i, op.key, val, ttl, out))
        /\ i' = i - 1
        /\ IF RepairMore(i, out.err)
           THEN UNCHANGED <<pc, ret>>
           ELSE /\ pc' = "done"
                /\ ret' = LoadHitReturn(val)
    /\ UNCHANGED <<caches, op, idx, mErr, val, ttl, mStats>>
    /\ UNCHANGED <<hvars, wvars, rvars, cvars>>

\* Multi.TTL: one iteration of the loop over cache.caches.
\* Mutant: 0 (no expiry) is taken for "not found".
TTLFound_Positive(t) == t > 0

TTLFound(t) == t >= 0

\* Mutant: the recorded errors are dropped.
TTLReturn_NoError(m) == [NoRet EXCEPT !.ttl = -1]

TTLReturn(m) == [NoRet EXCEPT !.ttl = -1, !.err = ErrOrNil(m)]

MultiTTL ==
    /\ pc = "TTL"
    /\ \E out \in CacheTTL(idx, op.key) :
        /\ store' = [store EXCEPT ![idx] = out.st]
        /\ log' = Append(log, Call("TTL", idx, op.key, NilVal, 0, out))
        /\ mErr' = Add(mErr, out.err)
        /\ IF out.err = Nil /\ TTLFound(out.ttl)
           THEN /\ pc' = "done"
                /\ ret' = [NoRet EXCEPT !.ttl = out.ttl]
                /\ UNCHANGED idx
           ELSE IF idx < Len(caches)
                THEN /\ idx' = idx + 1
                     /\ UNCHANGED <<pc, ret>>
                ELSE /\ pc' = "done"
                     /\ ret' = TTLReturn(mErr')
                     /\ UNCHANGED idx
    /\ UNCHANGED <<caches, op, i, val, ttl, mStats>>
    /\ UNCHANGED <<hvars, wvars, rvars, cvars>>

\* Multi.Stats: one iteration of the loop over cache.caches.
\* Mutant: MaxMemory adds up the Memory field.
StatsSum_CopyPaste(a, b) ==
    [Memory    |-> a.Memory + b.Memory,
     MaxMemory |-> a.MaxMemory + b.Memory,
     Hits      |-> a.Hits + b.Hits,
     Misses    |-> a.Misses + b.Misses,
     Keys      |-> a.Keys + b.Keys,
     Expired   |-> a.Expired + b.Expired,
     Evicted   |-> a.Evicted + b.Evicted]

StatsSum(a, b) ==
    [Memory    |-> a.Memory + b.Memory,
     MaxMemory |-> a.MaxMemory + b.MaxMemory,
     Hits      |-> a.Hits + b.Hits,
     Misses    |-> a.Misses + b.Misses,
     Keys      |-> a.Keys + b.Keys,
     Expired   |-> a.Expired + b.Expired,
     Evicted   |-> a.Evicted + b.Evicted]

\* Mutant: the partial sum is returned next to the error.
StatsReturn_Partial(m, sum) == [NoRet EXCEPT !.err = ErrOrNil(m), !.stats = sum]

StatsReturn(m, sum) ==
    IF ErrOrNil(m) # Nil
    THEN [NoRet EXCEPT !.err = ErrOrNil(m)]
    ELSE [NoRet EXCEPT !.stats = sum]

MultiStats ==
    /\ pc = "Stats"
    /\ \E out \in CacheStats(idx) :
        /\ log' = Append(log, [call |-> "Stats", idx |-> idx, key |-> op.key,
                               value |-> NilVal, expire |-> 0, err |-> out.err,
                               val |-> NilVal, ttl |-> 0, stats |-> out.stats])
        /\ mErr' = Add(mErr, out.err)
        /\ mStats' = IF out.err # Nil THEN mStats ELSE StatsSum(mStats, out.stats)
        /\ IF idx < Len(caches)
           THEN /\ idx' = idx + 1
                /\ UNCHANGED <<pc, ret>>
           ELSE /\ pc' = "done"
                /\ ret' = StatsReturn(mErr', mStats')
                /\ UNCHANGED idx
    /\ UNCHANGED <<caches, store, op, i, val, ttl>>
    /\ UNCHANGED <<hvars, wvars, rvars, cvars>>

(***************************************************************************)
(* Specification: Multi over Mocks, as in the unit tests.                  *)
(***************************************************************************)
\* No StatsWatcher takes part.
NoWatcher ==
    /\ sw = <<>>
    /\ task = <<>>
    /\ users = <<>>
    /\ trace = <<>>

\* No Redis cache is called on its own.
NoServer ==
    /\ srv = <<>>
    /\ answer = <<>>

\* The second goroutine, before it calls Multi.Save.
IdleSaver == [pc |-> "idle", idx |-> 0, mErr |-> <<>>, ret |-> NoRet]

\* No cluster is queried, and Multi has one caller.
NoCluster ==
    /\ cluster = <<>>
    /\ saver = IdleSaver

\* No reloadable cache takes part.
NoHandle ==
    /\ kind = "none"
    /\ config = <<>>
    /\ handle = <<>>
    /\ mu = <<>>
    /\ insts = <<>>
    /\ proc = <<>>
    /\ rc = <<>>

NewMulti(kinds) ==
    /\ NoHandle
    /\ NoCluster
    /\ NoWatcher
    /\ NoServer
    /\ caches = kinds
    /\ store = [b \in 1..Len(kinds) |-> EmptyStore]
    /\ pc = "idle"
    /\ op = NoOp
    /\ idx = 0
    /\ i = 0
    /\ mErr = <<>>
    /\ val = NilVal
    /\ ttl = 0
    /\ mStats = ZeroStats
    /\ ret = NoRet
    /\ log = <<>>

Init == NewMulti([b \in 1..NumCaches |-> "Mock"])

Next ==
    \/ CallSave
    \/ CallLoad
    \/ CallTTL
    \/ CallStats
    \/ MultiSave
    \/ MultiLoad
    \/ MultiLoadTTL
    \/ MultiLoadSave
    \/ MultiTTL
    \/ MultiStats

Spec == Init /\ [][Next]_vars

(***************************************************************************)
(* Specification: Multi over a Memory front cache and Redis back caches,   *)
(* with time passing between any two backend calls.                        *)
(***************************************************************************)
\* One second passes: lifetimes shrink, entries at their end expire.
Expire(e) ==
    IF e.has /\ e.exp = 1 THEN NoEntry
    ELSE IF e.has /\ e.exp > 1 THEN [e EXCEPT !.exp = e.exp - 1]
    ELSE e

Tick ==
    /\ \E b \in 1..Len(caches), k \in StoreKeys : store[b][k].has /\ store[b][k].exp > 0
    /\ store' = [b \in 1..Len(caches) |-> [k \in StoreKeys |-> Expire(store[b][k])]]
    /\ UNCHANGED <<caches, pc, op, idx, i, mErr, val, ttl, mStats, ret, log>>
    /\ UNCHANGED <<hvars, wvars, rvars, cvars>>

InitStore == NewMulti([b \in 1..NumCaches |-> IF b = 1 THEN "Memory" ELSE "Redis"])

NextStore ==
    \/ CallSave
    \/ CallLoad
    \/ CallTTL
    \/ MultiSave
    \/ MultiLoad
    \/ MultiLoadTTL
    \/ MultiLoadSave
    \/ MultiTTL
    \/ Tick

SpecStore == InitStore /\ [][NextStore]_vars

(***************************************************************************)
(* Reloadable caches: NewMemoryWithConfig, NewRedis6WithConfig and         *)
(* NewRedis7WithConfig register onConfigChange as an observer of the       *)
(* configuration.  Goroutines call the cache while the observer runs.      *)
(* Every access to a field of the struct and every mutex call is a step.   *)
(* Redis6 and Redis7 differ in the client library only: "Redis" is both.   *)
(***************************************************************************)
Callers == {"g1", "g2"}

\* Clients built over the life of one cache, the first one included.
MaxClients == 3

MemoryCfgKeyMemorySize == "xcache.memory.memsizebytes"

RedisCfgKeyAddrs == "xcache.redis.addrs"

RedisCfgKeyDB == "xcache.redis.db"

freecacheMinBufSize == 524288

\* The values a reload may give to each configuration key (addrs: how many).
CfgValues ==
    [ k \in {MemoryCfgKeyMemorySize, RedisCfgKeyAddrs, RedisCfgKeyDB} |->
        CASE k = MemoryCfgKeyMemorySize -> {1024, 524288, 1048576}
          [] k = RedisCfgKeyAddrs -> {1, 2}
          [] k = RedisCfgKeyDB -> {0} ]

InitialConfig ==
    [ k \in DOMAIN CfgValues |->
        CASE k = MemoryCfgKeyMemorySize -> 1048576
          [] k = RedisCfgKeyAddrs -> 1
          [] k = RedisCfgKeyDB -> 0 ]

\* Values saved in the reloadable Memory; "mid" fits the larger size only.
HValues == {"v1", "mid"}

ValueLen(v) ==
    CASE v = "mid" -> 600
      [] v = LargeValue -> 20000
      [] OTHER -> 16

\* Mutant: the requested size is taken as it is.
getRealMemorySize_Raw(memSize) == memSize

getRealMemorySize(memSize) ==
    IF memSize < freecacheMinBufSize THEN freecacheMinBufSize ELSE memSize

isRedisConfigKey(key) ==
    key \in { RedisCfgKeyAddrs, RedisCfgKeyDB,
              "xcache.redis.auth.username", "xcache.redis.auth.password",
              "xcache.redis.timeout.dial", "xcache.redis.timeout.read",
              "xcache.redis.timeout.write", "xcache.redis.cluster.readonly",
              "xcache.redis.failover.mastername",
              "xcache.redis.failover.auth.usernmae",
              "xcache.redis.failover.auth.password" }

\* RedisConfig.IsCluster, for a configuration without a master name.
IsCluster(cfg) == cfg[RedisCfgKeyAddrs] > 1

clusterMasterKeyPrefixes ==
    << "used_memory:", "maxmemory:", "total_system_memory:", "evicted_keys:",
       "expired_keys:", "keyspace_hits:", "keyspace_misses:" >>

keysCountPrefix(db) == IF db = 0 THEN "db0:keys=" ELSE "db1:keys="

\* setStatsKeyPrefixes: what it leaves in cache.statsInfoKeyPrefixes.
StatsKeyPrefixes(isCluster, db) ==
    IF isCluster THEN clusterMasterKeyPrefixes
    ELSE Append(clusterMasterKeyPrefixes, keysCountPrefix(db))

\* A client: freecache.NewCache(size) for a Memory, for a Redis
\* NewUniversalClient(options) with the addresses and database of cfg.
NewClient(k, cfg) ==
    [size |-> IF k = "Memory" THEN getRealMemorySize(cfg[MemoryCfgKeyMemorySize]) ELSE 0,
     addrs |-> IF k = "Redis" THEN cfg[RedisCfgKeyAddrs] ELSE 0,
     db |-> IF k = "Redis" THEN cfg[RedisCfgKeyDB] ELSE 0,
     entries |-> EmptyStore, closed |-> FALSE, closedBy |-> {}]

\* The struct as the constructor leaves it, around client 1.
NewHandle(k, cfg) ==
    [client |-> 1,
     memSize |-> IF k = "Memory" THEN getRealMemorySize(cfg[MemoryCfgKeyMemorySize]) ELSE 0,
     isCluster |-> k = "Redis" /\ IsCluster(cfg),
     statsInfoKeyPrefixes |->
        IF k = "Redis" THEN StatsKeyPrefixes(IsCluster(cfg), cfg[RedisCfgKeyDB]) ELSE <<>>]

\* sync.RWMutex: holders of read access (with how many times each took it),
\* the holder of write access, and a Lock call waiting for the readers.
NewMutex == [readers |-> [p \in Callers |-> 0], writer |-> FALSE, pending |-> FALSE]

Unseen == [client |-> 0, memSize |-> 0, isCluster |-> "unread", statsInfoKeyPrefixes |-> "unread"]

IdleCaller == [pc |-> "idle", op |-> "none", n |-> 0, seen |-> Unseen, err |-> FALSE]

IdleRc == [pc |-> "idle", changedKeys |-> {}, memSize |-> 0, newClient |-> 0,
           oldClient |-> 0, todo |-> {}, key |-> "k1", entry |-> NoEntry]

\* The methods a goroutine may call.
Ops(k) == IF k = "Redis" THEN {"Save", "Load", "TTL", "Stats", "Close"}
          ELSE {"Save", "Load", "TTL", "Stats"}

\* The fields of the struct a method reads between rLock and rUnlock, in
\* the order it reads them.
Reads(k, o) ==
    IF o = "Stats"
    THEN IF k = "Redis" THEN <<"isCluster", "client", "statsInfoKeyPrefixes">>
         ELSE <<"memSize", "client">>
    ELSE <<"client">>

\* freecache's Set: an entry larger than 1/1024 of the cache size is refused.
Fits(v, size) == ValueLen(v) <= size \div 1024

MemorySet(st, size, key, value, secs) ==
    IF Fits(value, size)
    THEN [err |-> FALSE, st |-> [st EXCEPT ![key] = Entry(value, secs)]]
    ELSE [err |-> TRUE, st |-> st]

\* What the call on the client may do to it, and whether it returns an error.
ClientCall(k, o, c) ==
    CASE k = "Memory" /\ o = "Save" ->
           { [err |-> FALSE, inst |-> [c EXCEPT !.entries[key] = NoEntry]] :
               key \in StoreKeys }
           \cup
           { [err |-> MemorySet(c.entries, c.size, key, v, expireSeconds(e)).err,
              inst |-> [c EXCEPT !.entries =
                          MemorySet(c.entries, c.size, key, v, expireSeconds(e)).st]] :
               key \in StoreKeys, v \in HValues, e \in Expires \ {-1} }
      [] k = "Memory" /\ o # "Save" -> { [err |-> FALSE, inst |-> c] }
      [] k = "Redis" /\ o = "Close" ->
           { [err |-> c.closed,
              inst |-> [c EXCEPT !.closed = TRUE, !.closedBy = @ \cup {"caller"}]] }
      [] OTHER ->
           { [err |-> e, inst |-> c] : e \in IF c.closed THEN {TRUE} ELSE {FALSE, TRUE} }

\* Memory.Stats: both memory fields are cache.memSize as the call read it
\* (the five counters of the freecache instance are left at zero here).
MemoryStats(seen) == [ZeroStats EXCEPT !.Memory = seen.memSize, !.MaxMemory = seen.memSize]

\* cache.mu of a cache built by NewMemory / NewRedis6 / NewRedis7: nil.
NilMutex == [readers |-> [p \in Callers |-> 0], writer |-> FALSE, pending |-> FALSE,
             nil |-> TRUE]

\* Mutant: rLock and rUnlock use the mutex without looking at the pointer.
HasMutex_Always(m) == TRUE

\* `if cache.mu != nil` of rLock and rUnlock.
HasMutex(m) == "nil" \notin DOMAIN m

\* Mutant: read access is granted while the observer holds write access.
RLockFree_IgnoresWriter(m) == TRUE

\* RLock returns at once if no Lock call holds or awaits the mutex.
RLockFree(m) == ~m.writer /\ ~m.pending

\* A goroutine calls a method of the cache, which starts with cache.rLock():
\* nothing without a mutex; with one, read access, or the goroutine sleeps
\* until Unlock wakes it.
RLock(p) ==
    /\ proc[p].pc = "idle"
    /\ \E o \in Ops(kind) :
         IF ~HasMutex(mu) \/ RLockFree(mu)
         THEN /\ mu' = IF HasMutex(mu) THEN [mu EXCEPT !.readers[p] = @ + 1] ELSE mu
              /\ proc' = [proc EXCEPT ![p] =
                             [IdleCaller EXCEPT !.pc = "use", !.op = o, !.n = 1]]
         ELSE /\ proc' = [proc EXCEPT ![p] = [IdleCaller EXCEPT !.pc = "rWait", !.op = o]]
              /\ UNCHANGED mu
    /\ UNCHANGED <<kind, config, handle, insts, rc>>
    /\ UNCHANGED <<mvars, wvars, rvars, cvars>>

\* The method reads its next field; on cache.client it makes its call.
Use(p) ==
    /\ proc[p].pc = "use"
    /\ LET me == proc[p]
           f == Reads(kind, me.op)[me.n]
           c == handle.client
           more == me.n < Len(Reads(kind, me.op))
       IN  /\ \E out \in IF f = "client" THEN ClientCall(kind, me.op, insts[c])
                         ELSE { [err |-> me.err, inst |-> insts[c]] } :
                /\ insts' = [insts EXCEPT ![c] = out.inst]
                /\ proc' = [proc EXCEPT ![p].seen[f] = handle[f],
                                        ![p].err = out.err,
                                        ![p].n = IF more THEN me.n + 1 ELSE me.n,
                                        ![p].pc = IF more THEN "use" ELSE "rUnlock"]
    /\ UNCHANGED <<kind, config, handle, mu, rc>>
    /\ UNCHANGED <<mvars, wvars, rvars, cvars>>

\* Mutant: a call that failed returns without rUnlock.
Unlocks_NotOnError(o, err) == ~err

\* Every path of every method releases the read access it took.
Unlocks(o, err) == TRUE

\* cache.rUnlock(), then the method returns.
RUnlock(p) ==
    /\ proc[p].pc = "rUnlock"
    /\ mu' = IF HasMutex(mu) /\ Unlocks(proc[p].op, proc[p].err)
             THEN [mu EXCEPT !.readers[p] = @ - 1]
             ELSE mu
    /\ proc' = [proc EXCEPT ![p] = IdleCaller]
    /\ UNCHANGED <<kind, config, handle, insts, rc>>
    /\ UNCHANGED <<mvars, wvars, rvars, cvars>>

\* One second passes for the entries of every freecache instance.
HTick ==
    /\ \E n \in 1..Len(insts), k \in StoreKeys :
          insts[n].entries[k].has /\ insts[n].entries[k].exp > 0
    /\ insts' = [n \in 1..Len(insts) |->
                   [insts[n] EXCEPT !.entries = [k \in StoreKeys |-> Expire(@[k])]]]
    /\ UNCHANGED <<kind, config, handle, mu, proc, rc>>
    /\ UNCHANGED <<mvars, wvars, rvars, cvars>>

\* A key of the application's configuration that no cache reads.
ForeignKey == "app.other"

\* The keys whose values the cache under test gets from the configuration.
ReadKeys(k) ==
    IF k = "Memory" THEN {MemoryCfgKeyMemorySize} ELSE {RedisCfgKeyAddrs, RedisCfgKeyDB}

\* The configuration is reloaded with other values under some keys, and the
\* observer is called with those keys.
ConfigReload ==
    /\ rc.pc = "idle"
    /\ Len(insts) < MaxClients
    /\ \E cfg \in [DOMAIN CfgValues -> UNION { CfgValues[k] : k \in DOMAIN CfgValues }],
          foreign \in SUBSET {ForeignKey} :
         /\ \A k \in DOMAIN CfgValues : cfg[k] \in CfgValues[k]
         /\ \A k \in DOMAIN CfgValues \ ReadKeys(kind) : cfg[k] = config[k]
         /\ cfg # config \/ foreign # {}
         /\ config' = cfg
         /\ rc' = [IdleRc EXCEPT !.pc = "check",
                      !.changedKeys =
                          { k \in DOMAIN CfgValues : cfg[k] # config[k] } \cup foreign]
    /\ UNCHANGED <<kind, handle, mu, insts, proc>>
    /\ UNCHANGED <<mvars, wvars, rvars, cvars>>

\* Mutant: any changed key counts as one of the cache's own.
OwnKey_Any(k, key) == TRUE

\* The test onConfigChange applies to each changed key.
OwnKey(k, key) ==
    IF k = "Memory" THEN key = MemoryCfgKeyMemorySize ELSE isRedisConfigKey(key)

\* onConfigChange up to its first mutex call: return if no changed key is
\* the cache's own; a Redis builds its new client here.
OnConfigChange ==
    /\ rc.pc = "check"
    /\ IF \E key \in rc.changedKeys : OwnKey(kind, key)
       THEN IF kind = "Redis"
            THEN /\ insts' = Append(insts, NewClient(kind, config))
                 /\ rc' = [rc EXCEPT !.pc = "Lock", !.newClient = Len(insts) + 1]
            ELSE /\ rc' = [rc EXCEPT !.pc = "Lock",
                              !.memSize = getRealMemorySize(config[MemoryCfgKeyMemorySize])]
                 /\ UNCHANGED insts
       ELSE /\ rc' = IdleRc
            /\ UNCHANGED insts
    /\ UNCHANGED <<kind, config, handle, mu, proc>>
    /\ UNCHANGED <<mvars, wvars, rvars, cvars>>

\* cache.mu.Lock() is called: from now on RLock waits.
Lock ==
    /\ rc.pc = "Lock"
    /\ mu' = [mu EXCEPT !.pending = TRUE]
    /\ rc' = [rc EXCEPT !.pc = "Locking"]
    /\ UNCHANGED <<kind, config, handle, insts, proc>>
    /\ UNCHANGED <<mvars, wvars, rvars, cvars>>

\* cache.mu.Lock() returns: the readers have left.
Locked ==
    /\ rc.pc = "Locking"
    /\ \A p \in Callers : mu.readers[p] = 0
    /\ mu' = [mu EXCEPT !.pending = FALSE, !.writer = TRUE]
    /\ rc' = [rc EXCEPT !.pc = IF kind = "Redis" THEN "setClient" ELSE "compare"]
    /\ UNCHANGED <<kind, config, handle, insts, proc>>
    /\ UNCHANGED <<mvars, wvars, rvars, cvars>>

\* Redis: oldClient := cache.client; cache.client = newClient
SetClient ==
    /\ rc.pc = "setClient"
    /\ handle' = [handle EXCEPT !.client = rc.newClient]
    /\ rc' = [rc EXCEPT !.oldClient = handle.client,
                        !.pc = IF kind = "Redis" THEN "setIsCluster" ELSE "setMemSize"]
    /\ UNCHANGED <<kind, config, mu, insts, proc>>
    /\ UNCHANGED <<mvars, wvars, rvars, cvars>>

\* cache.isCluster = redisConfig.IsCluster()
SetIsCluster ==
    /\ rc.pc = "setIsCluster"
    /\ handle' = [handle EXCEPT !.isCluster = IsCluster(config)]
    /\ rc' = [rc EXCEPT !.pc = "setPrefixes"]
    /\ UNCHANGED <<kind, config, mu, insts, proc>>
    /\ UNCHANGED <<mvars, wvars, rvars, cvars>>

\* cache.setStatsKeyPrefixes(redisConfig.DB)
SetPrefixes ==
    /\ rc.pc = "setPrefixes"
    /\ handle' = [handle EXCEPT !.statsInfoKeyPrefixes =
                     StatsKeyPrefixes(handle.isCluster, config[RedisCfgKeyDB])]
    /\ rc' = [rc EXCEPT !.pc = "Unlock"]
    /\ UNCHANGED <<kind, config, mu, insts, proc>>
    /\ UNCHANGED <<mvars, wvars, rvars, cvars>>

\* cache.mu.Unlock(): the goroutines sleeping in RLock get read access.
\* A Memory's observer returns here, and the replaced freecache instance is
\* garbage.
Unlock ==
    /\ rc.pc = "Unlock"
    /\ mu' = [mu EXCEPT !.writer = FALSE,
                        !.readers = [p \in Callers |->
                            IF proc[p].pc = "rWait" THEN @[p] + 1 ELSE @[p]]]
    /\ proc' = [p \in Callers |->
                  IF proc[p].pc = "rWait"
                  THEN [proc[p] EXCEPT !.pc = "use", !.n = 1]
                  ELSE proc[p]]
    /\ IF kind = "Redis"
       THEN /\ rc' = [rc EXCEPT !.pc = "Close"]
            /\ UNCHANGED insts
       ELSE /\ rc' = IdleRc
            /\ insts' = IF rc.oldClient = 0 THEN insts
                        ELSE [insts EXCEPT ![rc.oldClient].entries = EmptyStore]
    /\ UNCHANGED <<kind, config, handle>>
    /\ UNCHANGED <<mvars, wvars, rvars, cvars>>

\* Mutant: the client closed is the one the struct holds.
CloseTarget_Live(old, live) == live

\* The client that onConfigChange closes.
CloseTarget(old, live) == old

\* _ = oldClient.Close(): the error of closing a closed client is dropped.
Close ==
    /\ rc.pc = "Close"
    /\ insts' = [insts EXCEPT ![CloseTarget(rc.oldClient, handle.client)] =
                    [@ EXCEPT !.closed = TRUE, !.closedBy = @ \cup {"observer"}]]
    /\ rc' = IdleRc
    /\ UNCHANGED <<kind, config, handle, mu, proc>>
    /\ UNCHANGED <<mvars, wvars, rvars, cvars>>

\* Memory: if memSize != int(cache.memSize)
Compare ==
    /\ rc.pc = "compare"
    /\ rc' = [rc EXCEPT !.pc = IF rc.memSize # handle.memSize THEN "newCache" ELSE "Unlock"]
    /\ UNCHANGED <<kind, config, handle, mu, insts, proc>>
    /\ UNCHANGED <<mvars, wvars, rvars, cvars>>

\* Mutant: the iterator finds nothing to copy.
NewIterator_Empty(c) == {}

\* oldClient.NewIterator(): the iterator walks every key of the instance.
NewIterator(c) == DOMAIN c.entries

\* newClient := freecache.NewCache(memSize); iter := oldClient.NewIterator()
NewCache ==
    /\ rc.pc = "newCache"
    /\ insts' = Append(insts, [NewClient(kind, config) EXCEPT !.size = rc.memSize])
    /\ rc' = [rc EXCEPT !.pc = "iterNext", !.newClient = Len(insts) + 1,
                        !.oldClient = handle.client,
                        !.todo = NewIterator(insts[handle.client])]
    /\ UNCHANGED <<kind, config, handle, mu, proc>>
    /\ UNCHANGED <<mvars, wvars, rvars, cvars>>

\* entry := iter.Next(): the next entry that has not expired, or nil.
IterNext ==
    /\ rc.pc = "iterNext"
    /\ LET live == { k \in rc.todo : insts[rc.oldClient].entries[k].has }
       IN  IF live = {}
           THEN rc' = [rc EXCEPT !.pc = "setClient", !.todo = {}]
           ELSE \E k \in live :
                  rc' = [rc EXCEPT !.pc = "copyTTL", !.todo = @ \ {k}, !.key = k,
                           !.entry = Entry(insts[rc.oldClient].entries[k].val, 0)]
    /\ UNCHANGED <<kind, config, handle, mu, insts, proc>>
    /\ UNCHANGED <<mvars, wvars, rvars, cvars>>

\* ttl, err := oldClient.TTL(entry.Key): an entry that expired since
\* iter.Next is skipped.
CopyTTL ==
    /\ rc.pc = "copyTTL"
    /\ LET e == insts[rc.oldClient].entries[rc.key]
       IN  IF e.has
           THEN rc' = [rc EXCEPT !.pc = "copySet", !.entry.exp = e.exp]
           ELSE rc' = [rc EXCEPT !.pc = "iterNext", !.entry = NoEntry]
    /\ UNCHANGED <<kind, config, handle, mu, insts, proc>>
    /\ UNCHANGED <<mvars, wvars, rvars, cvars>>

\* Mutant: the entry is copied without its ttl.
CopyExpire_None(t) == 0

\* The expire given to Set for an entry whose remaining ttl is t seconds.
CopyExpire(t) == t

\* _ = newClient.Set(entry.Key, entry.Value, int(ttl))
CopySet ==
    /\ rc.pc = "copySet"
    /\ insts' = [insts EXCEPT ![rc.newClient].entries =
                    MemorySet(@, insts[rc.newClient].size, rc.key,
                              rc.entry.val, CopyExpire(rc.entry.exp)).st]
    /\ rc' = [rc EXCEPT !.pc = "iterNext", !.entry = NoEntry]
    /\ UNCHANGED <<kind, config, handle, mu, proc>>
    /\ UNCHANGED <<mvars, wvars, rvars, cvars>>

\* cache.memSize = int64(memSize)
SetMemSize ==
    /\ rc.pc = "setMemSize"
    /\ handle' = [handle EXCEPT !.memSize = rc.memSize]
    /\ rc' = [rc EXCEPT !.pc = "Unlock"]
    /\ UNCHANGED <<kind, config, mu, insts, proc>>
    /\ UNCHANGED <<mvars, wvars, rvars, cvars>>

(***************************************************************************)
(* Specification: a Memory or a Redis built WithConfig, two goroutines     *)
(* calling it, and the observer of the configuration.                      *)
(***************************************************************************)
\* The cache as its constructor leaves it, with mutex m in cache.mu.
InitHandle(m) ==
    /\ NoWatcher
    /\ NoServer
    /\ NoCluster
    /\ kind \in {"Memory", "Redis"}
    /\ config = InitialConfig
    /\ handle = NewHandle(kind, config)
    /\ mu = m
    /\ insts = <<NewClient(kind, config)>>
    /\ proc = [p \in Callers |-> IdleCaller]
    /\ rc = IdleRc
    /\ caches = <<>>
    /\ store = <<>>
    /\ pc = "idle"
    /\ op = NoOp
    /\ idx = 0
    /\ i = 0
    /\ mErr = <<>>
    /\ val = NilVal
    /\ ttl = 0
    /\ mStats = ZeroStats
    /\ ret = NoRet
    /\ log = <<>>

\* NewMemoryWithConfig / NewRedis6WithConfig / NewRedis7WithConfig.
InitReload == InitHandle(NewMutex)

\* A step of goroutine p inside the method it called.
CallerStep(p) == Use(p) \/ RUnlock(p)

ObserverStep ==
    \/ OnConfigChange
    \/ Lock
    \/ Locked
    \/ SetClient
    \/ SetIsCluster
    \/ SetPrefixes
    \/ Unlock
    \/ Close
    \/ Compare
    \/ NewCache
    \/ IterNext
    \/ CopyTTL
    \/ CopySet
    \/ SetMemSize

NextReload ==
    \/ \E p \in Callers : RLock(p)
    \/ \E p \in Callers : CallerStep(p)
    \/ ConfigReload
    \/ ObserverStep
    \/ HTick

SpecReload == InitReload /\ [][NextReload]_vars

\* The goroutines are scheduled: a step that stays possible is taken.
SpecReloadFair ==
    /\ SpecReload
    /\ \A p \in Callers : WF_vars(CallerStep(p))
    /\ WF_vars(ObserverStep)

(***************************************************************************)
(* Properties                                                              *)
(***************************************************************************)
Done(name) == pc = "done" /\ op.name = name

\* Positions in log of the calls that returned an error.
Failing == { j \in 1..Len(log) : log[j].err # Nil }

\* Positions in log of the calls of method name on backend b.
Calls(name, b) == { j \in 1..Len(log) : log[j].call = name /\ log[j].idx = b }

\* Positions in log of the Load calls that returned a value.
Hits == { j \in 1..Len(log) : log[j].call = "Load" /\ log[j].err = Nil }

\* Positions in log of the calls that failed with something else than ErrNotFound.
Failures == { j \in 1..Len(log) : log[j].err \notin {Nil, ErrNotFound} }

\* C1: Multi.Save calls Save exactly once on every backend, in index order,
\* with the caller's key, value and expire, whether or not earlier backends
\* failed, and returns nil iff every backend's Save returned nil.
C1_SaveEveryBackend ==
    Done("Save") =>
        /\ Len(log) = Len(caches)
        /\ \A j \in 1..Len(log) :
              /\ log[j].call = "Save"
              /\ log[j].idx = j
              /\ log[j].key = op.key
              /\ log[j].value = op.value
              /\ log[j].expire = op.expire
        /\ (ret.err = Nil) <=> (\A j \in 1..Len(log) : log[j].err = Nil)

C1_Witness ==
    /\ Done("Save")
    /\ Len(log) = Len(caches)
    /\ log[1].err # Nil
    /\ log[Len(log)].err = Nil
    /\ op.key = "k2"
    /\ ret.err # Nil

\* A Save that finished with failures: the error matches every failing
\* backend's error, no backend got a second call and no call carried another
\* expire than the caller's.
SaveFailedNoUndo ==
    (Done("Save") /\ Failing # {}) =>
        /\ ret.err # Nil
        /\ \A j \in Failing : ErrorsIs(ret.err, log[j].err)
        /\ \A b \in 1..Len(caches) : Cardinality(Calls("Save", b)) <= 1
        /\ \A j \in 1..Len(log) : log[j].call = "Save" /\ log[j].expire = op.expire

\* C2: when backends fail during Multi.Save, the returned error matches the
\* error of every failing backend, and nothing is undone: each step of Save
\* touches the one backend it calls and leaves what the others hold in
\* place, no backend gets a second call, and there is no compensating delete.
C2_SaveAggregatesNoUndo ==
    [][(pc = "Save" /\ log' # log) =>
         /\ \A b \in 1..Len(caches) : b # idx => store'[b] = store[b]
         /\ SaveFailedNoUndo'
      ]_vars

C2_Witness ==
    /\ Done("Save")
    /\ Cardinality(Failing) >= 2
    /\ log[1].err = Nil
    /\ op.expire > 0
    /\ store[1][op.key].has
    /\ store[1][op.key].val = op.value

\* C3: Multi.Load scans in index order and returns, with a nil error, the
\* value of the first backend whose Load succeeds; no backend of higher index
\* receives any call, and a hit at index 0 issues no TTL query and no Save.
C3_LoadFirstHit ==
    Done("Load") =>
        /\ (Hits # {}) <=> (ret.err = Nil)
        /\ \A h \in Hits :
              /\ \A j \in 1..h : log[j].call = "Load" /\ log[j].idx = j
              /\ \A j \in 1..(h - 1) : log[j].err # Nil
              /\ ret.val = log[h].val
              /\ \A j \in 1..Len(log) : log[j].idx <= h
              /\ (h = 1) => (Len(log) = 1)

C3_Witness ==
    /\ Done("Load")
    /\ Len(log) = 1
    /\ log[1].err = Nil
    /\ ret.val = "v2"
    /\ ret.err = Nil

\* What a Load and a TTL of the operation's key on B0 (caches[0]) return.
B0Holds(v, t) ==
    /\ \A o \in CacheLoad(1, op.key) : o.err = Nil /\ o.val = v
    /\ \A o \in CacheTTL(1, op.key) : o.err = Nil /\ o.ttl >= 0 /\ o.ttl <= t

B0Absent == \A o \in CacheLoad(1, op.key) : o.err = ErrNotFound

\* The write-backs of a finished Load: after a hit at index w > 0 whose TTL
\* query succeeded, one Save on each of w-1, ..., 0 with the loaded value
\* and that ttl, and no other call.
RepairCalls ==
    \A h \in Hits :
        (log[h].idx > 1 /\ Len(log) > h /\ log[h + 1].err = Nil) =>
            /\ log[h + 1].call = "TTL" /\ log[h + 1].idx = log[h].idx
            /\ Len(log) = h + 1 + (log[h].idx - 1)
            /\ \A n \in 1..(log[h].idx - 1) :
                  /\ log[h + 1 + n].call = "Save"
                  /\ log[h + 1 + n].idx = log[h].idx - n
                  /\ log[h + 1 + n].key = op.key
                  /\ log[h + 1 + n].value = log[h].val
                  /\ log[h + 1 + n].expire = log[h + 1].ttl

\* The step in which a Load that repaired returns.
RepairReturns == pc = "LoadSave" /\ pc' = "done"

\* C4 (as stated): after a hit at index i > 0 with a successful TTL query the
\* value is saved with that TTL into every lower-index backend, once each,
\* and into no other; afterwards a Load on B0 returns the same value with a
\* TTL not greater than the winner's.
C4_AsStated ==
    [][RepairReturns => (RepairCalls' /\ B0Holds(val, ttl)')]_vars

\* C4 (amended): the same write-backs; at the return of Load, if the
\* write-back on B0 returned nil, B0 holds what it wrote: for a ttl >= 0 the
\* same value with a TTL not greater than the winner's, for a negative ttl
\* no entry for the key.
C4_ReadRepair ==
    [][RepairReturns =>
         /\ RepairCalls'
         /\ IF log'[Len(log')].err # Nil THEN store'[1] = store[1]
            ELSE IF ttl >= 0 THEN B0Holds(val, ttl)'
            ELSE B0Absent'
      ]_vars

\* The write-back of a negative ttl: the key left the winning backend
\* between its Load and its TTL query.
RepairDeletes ==
    /\ Done("Load")
    /\ Len(log) >= 4
    /\ log[Len(log)].call = "Save"
    /\ log[Len(log)].expire < 0
    /\ log[Len(log)].err = Nil

C4_Witness ==
    /\ Done("Load")
    /\ Len(log) = 6
    /\ log[3].err = Nil
    /\ log[4].err = Nil /\ log[4].ttl > 0
    /\ \A n \in 5..6 : log[n].call = "Save" /\ log[n].err = Nil
    /\ B0Holds(ret.val, log[4].ttl)

\* C5: with no hit and at least one error other than ErrNotFound, Multi.Load
\* returns a nil value and an aggregated error that matches every such
\* error and is not ErrNotFound, even if other backends reported the key absent.
C5_LoadErrorPrecedence ==
    (Done("Load") /\ Hits = {} /\ Failures # {}) =>
        /\ ret.val = NilVal
        /\ ret.err # Nil
        /\ ~ErrorsIs(ret.err, ErrNotFound)
        /\ \A j \in Failures : ErrorsIs(ret.err, log[j].err)

C5_Witness ==
    /\ Done("Load")
    /\ Hits = {}
    /\ Cardinality(Failures) >= 2
    /\ \E j \in 1..Len(log) : log[j].err = ErrNotFound

\* C6: a failure (not ErrNotFound) of a lower-index backend followed by a hit
\* in a later backend: Multi.Load returns that value with a nil error, and
\* every backend up to the hit had exactly one Load call.
C6_LoadDropsErrorsOnHit ==
    Done("Load") =>
        \A h \in Hits :
            (\E j \in Failures : j < h) =>
                /\ ret.val = log[h].val
                /\ ret.err = Nil
                /\ \A b \in 1..log[h].idx : Cardinality(Calls("Load", b)) = 1

C6_Witness ==
    /\ Done("Load")
    /\ Len(log) >= 2
    /\ log[1].err = BackendErr(1)
    /\ log[2].call = "Load"
    /\ log[2].err = Nil
    /\ ret.val = log[2].val

\* C7: every backend reports ErrNotFound: Multi.Load returns a nil value and
\* ErrNotFound after exactly one Load on every backend, with no TTL query
\* and no Save.
C7_LoadPureMiss ==
    (Done("Load") /\ \A j \in 1..Len(log) : log[j].call = "Load" => log[j].err = ErrNotFound) =>
        /\ ret.val = NilVal
        /\ ret.err = ErrNotFound
        /\ Len(log) = Len(caches)
        /\ \A j \in 1..Len(log) : log[j].call = "Load" /\ log[j].idx = j

C7_Witness ==
    /\ Done("Load")
    /\ Len(log) = Len(caches)
    /\ \A j \in 1..Len(log) : log[j].err = ErrNotFound
    /\ ret.err = ErrNotFound

\* Positions in log of the TTL calls that returned a non-negative ttl.
Found == { j \in 1..Len(log) : log[j].call = "TTL" /\ log[j].err = Nil /\ log[j].ttl >= 0 }

\* C8: Multi.TTL queries in index order and returns, with a nil error, the
\* first non-negative TTL, 0 included; later backends are not queried and the
\* errors of earlier backends are dropped.
C8_TTLFirstFound ==
    Done("TTL") =>
        \A h \in Found :
            /\ Len(log) = h
            /\ \A j \in 1..h : log[j].call = "TTL" /\ log[j].idx = j /\ log[j].key = op.key
            /\ ret.ttl = log[h].ttl
            /\ ret.err = Nil

C8_Witness ==
    /\ Done("TTL")
    /\ Len(log) = 2
    /\ Len(caches) > 2
    /\ log[1].err # Nil
    /\ log[2].err = Nil
    /\ log[2].ttl = 0
    /\ ret.ttl = 0

\* C9: no backend returns a non-negative TTL: Multi.TTL returns a negative TTL
\* after one query of every backend; the error is nil if no backend failed,
\* else an aggregate matching every failing backend's error.
C9_TTLNotFound ==
    (Done("TTL") /\ Found = {}) =>
        /\ ret.ttl < 0
        /\ Len(log) = Len(caches)
        /\ \A j \in 1..Len(log) : log[j].call = "TTL" /\ log[j].idx = j
        /\ (Failing = {}) => (ret.err = Nil)
        /\ \A j \in Failing : ErrorsIs(ret.err, log[j].err)

C9_Witness ==
    /\ Done("TTL")
    /\ Found = {}
    /\ Cardinality(Failing) >= 2
    /\ \E j \in 1..Len(log) : log[j].err = Nil /\ log[j].ttl < 0

\* C10: a failing Stats call of any backend: Multi.Stats returns the all-zero
\* Stats with an aggregate matching every failing backend's error; every
\* backend is queried exactly once and no counter of a backend that
\* succeeded shows in the result.
C10_StatsAllOrNothing ==
    (Done("Stats") /\ Failing # {}) =>
        /\ ret.stats = ZeroStats
        /\ ret.err # Nil
        /\ \A j \in Failing : ErrorsIs(ret.err, log[j].err)
        /\ Len(log) = Len(caches)
        /\ \A j \in 1..Len(log) : log[j].call = "Stats" /\ log[j].idx = j

C10_Witness ==
    /\ Done("Stats")
    /\ Cardinality(Failing) = 1
    /\ mStats.Hits >= 10
    /\ ret.stats = ZeroStats

\* The sum of field f over the Stats that the first n calls of log returned.
RECURSIVE SumField(_, _)
SumField(f, n) == IF n = 0 THEN 0 ELSE log[n].stats[f] + SumField(f, n - 1)

StatsFields ==
    {"Memory", "MaxMemory", "Hits", "Misses", "Keys", "Expired", "Evicted"}

\* C11: when the Stats call of every backend succeeds, Multi.Stats returns a
\* nil error and a Stats whose seven fields are each the sum of that field
\* over what the backends reported.
C11_StatsFieldwiseSum ==
    (Done("Stats") /\ Failing = {}) =>
        /\ ret.err = Nil
        /\ Len(log) = Len(caches)
        /\ DOMAIN ret.stats = StatsFields
        /\ \A f \in StatsFields : ret.stats[f] = SumField(f, Len(log))

C11_Witness ==
    /\ Done("Stats")
    /\ Failing = {}
    /\ ret.err = Nil
    /\ ret.stats.Memory = 3
    /\ ret.stats.MaxMemory = 4
    /\ ret.stats.Hits = 13

\* The calls of the operation in progress follow the order of cache.caches:
\* Save, TTL and Stats call backend j as their j-th call; Load calls Load on
\* backends 1..h, then TTL on the winning backend h, then Save on h-1, ..., 1.
LogInOrder ==
    LET n == Len(log)
        h == Cardinality({ j \in 1..n : log[j].call = "Load" })
    IN  CASE op.name \in {"Save", "TTL", "Stats"} ->
               \A j \in 1..n : log[j].call = op.name /\ log[j].idx = j
          [] op.name = "Load" ->
               /\ \A j \in 1..h : log[j].call = "Load" /\ log[j].idx = j
               /\ (n > h) => /\ log[h].err = Nil
                             /\ log[h + 1].call = "TTL"
                             /\ log[h + 1].idx = h
               /\ (n > h + 1) => log[h + 1].err = Nil
               /\ \A j \in (h + 2)..n :
                     /\ log[j].call = "Save"
                     /\ log[j].idx = h - (j - (h + 1))
               /\ Done("Load") /\ n > h /\ log[h + 1].err = Nil => n = 2 * h
          [] OTHER -> n = 0

\* C12: within one Multi call the backends are visited in the order given to
\* NewMulti, no step changes the backend list, and the read-repair writes
\* come after the winning Load and its TTL query, on h-1, h-2, ..., down to
\* the first backend.
C12_FixedOrder ==
    [][caches' = caches /\ Len(caches') = NumCaches /\ LogInOrder']_vars

C12_Witness ==
    /\ Done("Load")
    /\ Len(log) = 6
    /\ log[4].call = "TTL" /\ log[4].idx = 3
    /\ log[5].call = "Save" /\ log[5].idx = 2
    /\ log[6].call = "Save" /\ log[6].idx = 1

(***************************************************************************)
(* Properties of the reloadable caches                                     *)
(***************************************************************************)
\* The fields of the struct that go with client n.
FieldsOf(n) ==
    [client |-> n,
     memSize |-> insts[n].size,
     isCluster |-> insts[n].addrs > 1,
     statsInfoKeyPrefixes |-> StatsKeyPrefixes(insts[n].addrs > 1, insts[n].db)]

InCall(p) == proc[p].pc \in {"use", "rUnlock"}

\* The fields that the call of p has read so far.
ReadSoFar(p) ==
    { Reads(kind, proc[p].op)[j] :
        j \in 1..(IF proc[p].pc = "rUnlock" THEN proc[p].n ELSE proc[p].n - 1) }

\* C13: whatever a call has read of the struct, under any interleaving with
\* the observer, belongs to one client and the capacity, cluster flag and
\* stats-marker list built with it; that client stays the struct's client
\* for as long as the call is between rLock and rUnlock.
C13_OneInstancePerCall ==
    \A p \in Callers :
        InCall(p) =>
            \A f \in ReadSoFar(p) :
                proc[p].seen[f] = FieldsOf(handle.client)[f]

C13_Witness ==
    /\ kind = "Redis"
    /\ \E p \in Callers :
         /\ proc[p].pc = "rUnlock"
         /\ proc[p].op = "Stats"
         /\ proc[p].seen.client = 2
         /\ proc[p].seen.isCluster = TRUE
         /\ proc[p].seen.statsInfoKeyPrefixes = clusterMasterKeyPrefixes
    /\ rc.pc = "Locking"
    /\ rc.newClient = 3

\* C14: the observer of a Redis closes a client only after that client has
\* been replaced in the struct and the mutex released; the struct never
\* holds a client the observer closed; when that Close fails (the client was
\* closed before), the observer returns all the same and the struct keeps
\* the new client.
C14_CloseAfterSwap ==
    /\ []("observer" \notin insts[handle.client].closedBy)
    /\ [][ \A n \in 1..Len(insts) :
             ("observer" \in insts'[n].closedBy /\ "observer" \notin insts[n].closedBy)
               => /\ rc.pc = "Close"
                  /\ n = rc.oldClient
                  /\ n # handle.client
                  /\ handle.client = rc.newClient
                  /\ ~mu.writer /\ ~mu.pending
                  /\ handle' = handle
                  /\ rc' = IdleRc
         ]_vars

C14_Witness ==
    /\ kind = "Redis"
    /\ Len(insts) = 2
    /\ insts[1].closedBy = {"caller", "observer"}
    /\ handle.client = 2
    /\ ~insts[2].closed
    /\ rc.pc = "idle"

\* A step of the observer that builds the new client or puts an entry in it.
BuildsOrFills ==
    \/ Len(insts') > Len(insts)
    \/ rc.pc = "copySet" /\ rc'.pc # "copySet"

\* C15: the observer of every reloadable cache builds the new client, and a
\* Memory's observer fills it with the migrated entries, while it holds no
\* write access to the mutex and no Lock call of its own makes RLock wait.
C15_ExclusiveOnlyForSwap ==
    [][BuildsOrFills => (~mu.writer /\ ~mu.pending)]_vars

\* The entries of the replaced and of the new freecache instance, just
\* before cache.client = newClient.
OldEntry(k) == insts[rc.oldClient].entries[k]

NewEntry(k) == insts[rc.newClient].entries[k]

BeforeSwap == kind = "Memory" /\ rc.pc = "setClient"

\* After the observer has returned, Stats reports the configured size.
SizeFollowsConfig ==
    (kind = "Memory" /\ rc.pc = "idle") =>
        /\ handle.memSize = getRealMemorySize(config[MemoryCfgKeyMemorySize])
        /\ insts[handle.client].size = handle.memSize

OwnKeys ==
    IF kind = "Memory" THEN {MemoryCfgKeyMemorySize}
    ELSE {RedisCfgKeyAddrs, RedisCfgKeyDB}

\* C17: when none of the changed keys is one of the cache's own, the
\* observer returns at once: the struct, its mutex, every client with its
\* entries, and the calls in progress are as before; no client is built and
\* none is closed.
C17_ForeignKeysNoOp ==
    [][ (rc.pc = "check" /\ rc' # rc /\ rc.changedKeys \cap OwnKeys = {}) =>
          /\ rc' = IdleRc
          /\ handle' = handle
          /\ mu' = mu
          /\ insts' = insts
          /\ proc' = proc
      ]_vars

C17_Witness ==
    /\ kind = "Redis"
    /\ rc.pc = "check"
    /\ rc.changedKeys = {ForeignKey}
    /\ handle.client = 2
    /\ \E p \in Callers : proc[p].pc = "use" /\ proc[p].op = "Stats"

\* A goroutine holds read access exactly while it is between rLock and
\* rUnlock, and holds it once.
ReadDiscipline ==
    \A p \in Callers :
        /\ mu.readers[p] \in {0, 1}
        /\ (mu.readers[p] = 1) <=> InCall(p)

\* C18: every call takes read access once and has released it when it
\* returns, whether or not it failed; a reconfiguration that has started
\* gets write access and completes, and every call that has started returns
\* (neither the observer nor a goroutine stays away from "idle" for ever).
C18_NoDeadlock ==
    /\ []ReadDiscipline
    /\ []<>(rc.pc = "idle")
    /\ \A p \in Callers : []<>(proc[p].pc = "idle")

C18_Witness ==
    /\ rc.pc = "Locking"
    /\ \E p, q \in Callers :
         /\ proc[p].pc = "rUnlock" /\ proc[p].err
         /\ proc[q].pc = "rWait"

(***************************************************************************)
(* Properties of the Memory cache, which is the first backend of the       *)
(* Multi of SpecStore: every call the Multi makes on it is a call of       *)
(* Memory.Save, Memory.Load or Memory.TTL, and seconds pass in between.    *)
(***************************************************************************)
\* The step is a call of method name for key k on the Memory.
MemoryCall(name, k) ==
    /\ Len(log') = Len(log) + 1
    /\ log'[Len(log')].idx = 1
    /\ log'[Len(log')].call = name
    /\ log'[Len(log')].key = k

\* What that call was given and what it returned.
Returned == log'[Len(log')]

\* C19: once Save(k, v, NoExpire) on the Memory has returned nil, and until
\* the next Save of k, every Load of k returns v with a nil error and every
\* TTL of k returns NoExpire with a nil error, however many seconds pass.
C19_NoExpireRoundTrip ==
    [][ \A k \in StoreKeys, v \in Values :
          /\ (MemoryCall("Save", k) /\ Returned.value = v /\ Returned.expire = NoExpire) =>
                /\ Returned.err = Nil
                /\ store'[1][k] = Entry(v, 0)
          /\ (store[1][k] = Entry(v, 0) /\ ~MemoryCall("Save", k)) =>
                store'[1][k] = Entry(v, 0)
          /\ (store[1][k] = Entry(v, 0) /\ MemoryCall("Load", k)) =>
                Returned.val = v /\ Returned.err = Nil
          /\ (store[1][k] = Entry(v, 0) /\ MemoryCall("TTL", k)) =>
                Returned.ttl = NoExpire /\ Returned.err = Nil
      ]_vars

C19_Witness ==
    /\ Done("Load")
    /\ Len(log) = 1
    /\ log[1].val = "v2" /\ log[1].err = Nil
    /\ store[1]["k1"] = Entry("v2", 0)
    /\ store[2]["k1"] = Entry("v1", 1)

\* C20: Save with a negative expire on the Memory returns nil and leaves the
\* key absent, whether or not it was present and whatever the value given;
\* while the key is absent Load returns a nil value with ErrNotFound and TTL
\* a negative value with a nil error, until the next Save of the key.
C20_NegativeExpireDeletes ==
    [][ \A k \in StoreKeys :
          /\ (MemoryCall("Save", k) /\ Returned.expire < 0) =>
                /\ Returned.err = Nil
                /\ store'[1][k] = NoEntry
          /\ (~store[1][k].has /\ ~(MemoryCall("Save", k) /\ Returned.expire >= 0)) =>
                ~store'[1][k].has
          /\ (~store[1][k].has /\ MemoryCall("Load", k)) =>
                Returned.val = NilVal /\ Returned.err = ErrNotFound
          /\ (~store[1][k].has /\ MemoryCall("TTL", k)) =>
                Returned.ttl < 0 /\ Returned.err = Nil
      ]_vars

C20_Witness ==
    /\ Done("Save")
    /\ op.expire < 0
    /\ op.value = LargeValue
    /\ log[1].err = Nil
    /\ ~store[1]["k1"].has
    /\ log[2].err # Nil
    /\ store[2]["k1"].has

\* C21: a TTL call on the Memory for a key that has e > 0 whole seconds left
\* returns that lifetime as a duration, e seconds, with a nil error.
C21_TTLInSaveUnit ==
    [][ \A k \in StoreKeys :
          (store[1][k].has /\ store[1][k].exp > 0 /\ MemoryCall("TTL", k)) =>
              /\ Returned.err = Nil
              /\ Returned.ttl = store[1][k].exp * Second
      ]_vars

(***************************************************************************)
(* Specification: a Memory cache alone (a Multi over it passes every call  *)
(* on and every result back), saved to with lifetimes below one second     *)
(* too, with seconds passing between the calls.                            *)
(***************************************************************************)
\* Positive lifetimes shorter than one second: 1ns, 500ms, 999999999ns.
SubSecond == {1, Second \div 2, Second - 1}

CallSaveShort ==
    \E key \in CallKeys, value \in CallValues, expire \in SubSecond :
        Begin("Save", key, value, expire)

InitMemory == NewMulti(<<"Memory">>)

NextMemory ==
    \/ CallSave
    \/ CallSaveShort
    \/ CallLoad
    \/ CallTTL
    \/ MultiSave
    \/ MultiLoad
    \/ MultiTTL
    \/ Tick

SpecMemory == InitMemory /\ [][NextMemory]_vars

\* The step is a second passing (no call is made, lifetimes shrink).
SecondPasses == log' = log /\ store' # store

\* C22: a Save on the Memory with a positive expire below one second returns
\* nil and stores the value with one second to live, not as a non-expiring
\* entry; while that second lasts Load returns the value; when it has passed
\* the key is absent, and for an absent key Load returns ErrNotFound and TTL
\* a negative value.
C22_SubSecondIsOneSecond ==
    [][ \A k \in StoreKeys, v \in Values :
          /\ (MemoryCall("Save", k) /\ Returned.value = v
                /\ Returned.expire > 0 /\ Returned.expire < Second) =>
                /\ Returned.err = Nil
                /\ store'[1][k] = Entry(v, 1)
          /\ (store[1][k] = Entry(v, 1) /\ MemoryCall("Load", k)) =>
                Returned.val = v /\ Returned.err = Nil
          /\ (store[1][k] = Entry(v, 1) /\ SecondPasses) => ~store'[1][k].has
          /\ (~store[1][k].has /\ MemoryCall("Load", k)) =>
                Returned.val = NilVal /\ Returned.err = ErrNotFound
          /\ (~store[1][k].has /\ MemoryCall("TTL", k)) =>
                Returned.ttl < 0 /\ Returned.err = Nil
      ]_vars

\* The Save with a lifetime below one second has returned nil and a second
\* has passed since: the key is gone.
C22_Witness ==
    /\ caches = <<"Memory">>
    /\ Done("Save")
    /\ op.expire \in SubSecond
    /\ op.value \in Values
    /\ log[1].err = Nil
    /\ ~store[1][op.key].has

(***************************************************************************)
(* Properties of the reloadable Memory cache's Stats.                      *)
(***************************************************************************)
\* Goroutine p is about to return from Memory.Stats.
StatsReturns(p) ==
    kind = "Memory" /\ proc[p].pc = "rUnlock" /\ proc[p].op = "Stats"

\* C23: a Stats call on the Memory cache returns a nil error and a report
\* whose Memory and MaxMemory both equal the capacity of the instance that is
\* live when the call returns, and that capacity is at least 512 KB; this
\* holds before and after any number of reconfigurations.
C23_StatsIsCapacity ==
    /\ kind = "Memory" =>
          \A n \in 1..Len(insts) : insts[n].size >= freecacheMinBufSize
    /\ \A p \in Callers :
          StatsReturns(p) =>
              /\ ~proc[p].err
              /\ MemoryStats(proc[p].seen).Memory = MemoryStats(proc[p].seen).MaxMemory
              /\ MemoryStats(proc[p].seen).MaxMemory = insts[handle.client].size
              /\ proc[p].seen.client = handle.client

\* Stats returns after a reconfiguration that asked for 1024 bytes: the
\* second instance is live and the report says 512 KB.
C23_Witness ==
    /\ \E p \in Callers : StatsReturns(p) /\ MemoryStats(proc[p].seen).MaxMemory = freecacheMinBufSize
    /\ handle.client = 2
    /\ config[MemoryCfgKeyMemorySize] = 1024

(***************************************************************************)
(* StatsWatcher.  Goroutines call Watch and Close on one StatsWatcher; the *)
(* goroutine started by watch runs watchAsync; the ticker delivers ticks   *)
(* and the context given to Watch may be cancelled.  Every statement of    *)
(* watch and close is a step, so that a Close may run while a Watch does.  *)
(* A panic ends the program: no goroutine takes a step after it.           *)
(***************************************************************************)
\* Ticks the ticker delivers over one run.
MaxTicks == 2

\* No multi-cache takes part.
NoMulti ==
    /\ caches = <<>>
    /\ store = <<>>
    /\ pc = "idle"
    /\ op = NoOp
    /\ idx = 0
    /\ i = 0
    /\ mErr = <<>>
    /\ val = NilVal
    /\ ttl = 0
    /\ mStats = ZeroStats
    /\ ret = NoRet
    /\ log = <<>>

NoRes == [err |-> Nil, stats |-> ZeroStats]

\* The StatsWatcher as NewStatsWatcher leaves it (ticker and closed are nil),
\* with the channel of its ticker (tickC: ticks waiting in ticker.C, fired:
\* ticks delivered so far), the number of go statements executed, and the
\* context the callers pass to Watch.
NewStatsWatcher ==
    [watchOnce |-> "new", closeOnce |-> "new", ticker |-> "nil", closed |-> "nil",
     wg |-> 0, tickC |-> 0, fired |-> 0, started |-> 0, ctxDone |-> FALSE]

NoTask == [pc |-> "none", fn |-> "none", res |-> NoRes]

\* late: the Close in progress was called after a Watch call had returned.
IdleUser == [pc |-> "idle", call |-> "none", late |-> FALSE]

Crashed == \E p \in Callers : users[p].pc = "panic"

Event(ev, fn, res) == [ev |-> ev, fn |-> fn, res |-> res]

\* Mutant: the function given to Do runs at every call.
OnceFree_Always(once) == TRUE

\* sync.Once.Do runs the function at its first call only.
OnceFree(once) == once = "new"

\* Where a call of Do goes: into the function, to sleep until the call that
\* is running the function has finished, or straight back.
OnceDo(once, first) ==
    IF OnceFree(once) THEN first
    ELSE IF once = "running" THEN "onceWait" ELSE "return"

\* sw.Watch(ctx, fn), with fn the sink of goroutine p: sw.watchOnce.Do.
Watch(p) ==
    /\ ~Crashed
    /\ users[p].pc = "idle"
    /\ users' = [users EXCEPT ![p] =
                    [IdleUser EXCEPT !.call = "Watch", !.pc = OnceDo(sw.watchOnce, "ticker")]]
    /\ sw' = IF OnceFree(sw.watchOnce) THEN [sw EXCEPT !.watchOnce = "running"] ELSE sw
    /\ UNCHANGED <<task, trace>>
    /\ UNCHANGED <<mvars, hvars, rvars, cvars>>

\* watch: w.ticker = time.NewTicker(w.interval)
watchTicker(p) ==
    /\ ~Crashed
    /\ users[p].pc = "ticker"
    /\ sw' = [sw EXCEPT !.ticker = "on", !.tickC = 0]
    /\ users' = [users EXCEPT ![p].pc = "make"]
    /\ UNCHANGED <<task, trace>>
    /\ UNCHANGED <<mvars, hvars, rvars, cvars>>

\* watch: w.closed = make(chan struct{}, 1)
watchMake(p) ==
    /\ ~Crashed
    /\ users[p].pc = "make"
    /\ sw' = [sw EXCEPT !.closed = "open"]
    /\ users' = [users EXCEPT ![p].pc = "add"]
    /\ UNCHANGED <<task, trace>>
    /\ UNCHANGED <<mvars, hvars, rvars, cvars>>

\* watch: w.wg.Add(1)
watchAdd(p) ==
    /\ ~Crashed
    /\ users[p].pc = "add"
    /\ sw' = [sw EXCEPT !.wg = @ + 1]
    /\ users' = [users EXCEPT ![p].pc = "go"]
    /\ UNCHANGED <<task, trace>>
    /\ UNCHANGED <<mvars, hvars, rvars, cvars>>

\* watch: go w.watchAsync(ctx, fn)
watchGo(p) ==
    /\ ~Crashed
    /\ users[p].pc = "go"
    /\ task' = [pc |-> "select", fn |-> p, res |-> NoRes]
    /\ sw' = [sw EXCEPT !.started = @ + 1]
    /\ users' = [users EXCEPT ![p].pc = "finish"]
    /\ UNCHANGED trace
    /\ UNCHANGED <<mvars, hvars, rvars, cvars>>

\* Watch: runtime.SetFinalizer, and Do has run its function.
WatchReturn(p) ==
    /\ ~Crashed
    /\ users[p].pc = "finish"
    /\ sw' = [sw EXCEPT !.watchOnce = "done"]
    /\ users' = [users EXCEPT ![p].pc = "return"]
    /\ UNCHANGED <<task, trace>>
    /\ UNCHANGED <<mvars, hvars, rvars, cvars>>

\* A field written by a Watch that is still running is read without any
\* synchronisation: the reader gets the value written or the nil before it.
RacyRead(v) == IF sw.watchOnce = "running" THEN {v, "nil"} ELSE {v}

\* sw.Close(): `sw.ticker != nil`, then sw.closeOnce.Do.
WatcherClose(p) ==
    /\ ~Crashed
    /\ users[p].pc = "idle"
    /\ \E ticker \in RacyRead(sw.ticker) :
         LET set == ticker # "nil"
         IN  /\ users' = [users EXCEPT ![p] =
                   [pc |-> IF set THEN OnceDo(sw.closeOnce, "close") ELSE "return",
                    call |-> "Close",
                    late |-> sw.watchOnce = "done"]]
             /\ sw' = IF set /\ OnceFree(sw.closeOnce)
                      THEN [sw EXCEPT !.closeOnce = "running"]
                      ELSE sw
    /\ UNCHANGED <<task, trace>>
    /\ UNCHANGED <<mvars, hvars, rvars, cvars>>

\* close: close(w.closed); closing a nil channel panics.
closeChan(p) ==
    /\ ~Crashed
    /\ users[p].pc = "close"
    /\ \E closed \in RacyRead(sw.closed) :
         IF closed = "nil"
         THEN /\ users' = [users EXCEPT ![p].pc = "panic"]
              /\ UNCHANGED sw
         ELSE /\ users' = [users EXCEPT ![p].pc = "wait"]
              /\ sw' = [sw EXCEPT !.closed = "closed"]
    /\ UNCHANGED <<task, trace>>
    /\ UNCHANGED <<mvars, hvars, rvars, cvars>>

\* close: w.wg.Wait() returns when the counter is zero; then SetFinalizer,
\* and Do has run its function.
closeWait(p) ==
    /\ ~Crashed
    /\ users[p].pc = "wait"
    /\ sw.wg = 0
    /\ sw' = [sw EXCEPT !.closeOnce = "done"]
    /\ users' = [users EXCEPT ![p].pc = "return"]
    /\ UNCHANGED <<task, trace>>
    /\ UNCHANGED <<mvars, hvars, rvars, cvars>>

\* Do returns to a caller that waited for the function to finish.
OnceWake(p) ==
    /\ ~Crashed
    /\ users[p].pc = "onceWait"
    /\ IF users[p].call = "Watch" THEN sw.watchOnce = "done" ELSE sw.closeOnce = "done"
    /\ users' = [users EXCEPT ![p].pc = "return"]
    /\ UNCHANGED <<sw, task, trace>>
    /\ UNCHANGED <<mvars, hvars, rvars, cvars>>

\* The call returns (Close returns nil).  The first return of a Close that
\* was called after a Watch had returned is marked in the trace.
Return(p) ==
    /\ ~Crashed
    /\ users[p].pc = "return"
    /\ users' = [users EXCEPT ![p] = IdleUser]
    /\ trace' = IF /\ users[p].call = "Close"
                   /\ users[p].late
                   /\ \A n \in 1..Len(trace) : trace[n].ev # "Close"
                THEN Append(trace, Event("Close", p, NoRes))
                ELSE trace
    /\ UNCHANGED <<sw, task>>
    /\ UNCHANGED <<mvars, hvars, rvars, cvars>>

\* watchAsync, select: case <-w.closed
watchAsyncClosed ==
    /\ ~Crashed
    /\ task.pc = "select"
    /\ sw.closed = "closed"
    /\ task' = [task EXCEPT !.pc = "done"]
    /\ UNCHANGED <<sw, users, trace>>
    /\ UNCHANGED <<mvars, hvars, rvars, cvars>>

\* Mutant: the select has no case for the context.
CtxCase_Missing(done) == FALSE

CtxCase(done) == done

\* watchAsync, select: case <-ctx.Done()
watchAsyncCtx ==
    /\ ~Crashed
    /\ task.pc = "select"
    /\ CtxCase(sw.ctxDone)
    /\ task' = [task EXCEPT !.pc = "done"]
    /\ UNCHANGED <<sw, users, trace>>
    /\ UNCHANGED <<mvars, hvars, rvars, cvars>>

\* watchAsync, select: case <-w.ticker.C
watchAsyncTick ==
    /\ ~Crashed
    /\ task.pc = "select"
    /\ sw.tickC = 1
    /\ sw' = [sw EXCEPT !.tickC = 0]
    /\ task' = [task EXCEPT !.pc = "stats"]
    /\ UNCHANGED <<users, trace>>
    /\ UNCHANGED <<mvars, hvars, rvars, cvars>>

\* What Stats of the watched cache returns: a report, or an error with the
\* zero Stats (as the Mock of the tests does).
WatchedStats ==
    { r \in CacheStats(1) : (r.err = Nil) <=> (r.stats.Keys = 5) }

\* stats, err := w.cache.Stats(ctx)
watchAsyncStats ==
    /\ ~Crashed
    /\ task.pc = "stats"
    /\ \E r \in WatchedStats :
         /\ task' = [task EXCEPT !.pc = "fn", !.res = r]
         /\ trace' = Append(trace, Event("Stats", "none", r))
    /\ UNCHANGED <<sw, users>>
    /\ UNCHANGED <<mvars, hvars, rvars, cvars>>

\* Mutant: the sink is not told of the error.
SinkArgs_NoError(res) == [res EXCEPT !.err = Nil]

\* What fn is called with: the stats and the error as Stats returned them.
SinkArgs(res) == res

\* fn(ctx, stats, err), then the loop goes back to the select.
watchAsyncFn ==
    /\ ~Crashed
    /\ task.pc = "fn"
    /\ task' = [task EXCEPT !.pc = "select"]
    /\ trace' = Append(trace, Event("sink", task.fn, SinkArgs(task.res)))
    /\ UNCHANGED <<sw, users>>
    /\ UNCHANGED <<mvars, hvars, rvars, cvars>>

\* watchAsync returns: the deferred w.wg.Done() runs first,
wgDone ==
    /\ ~Crashed
    /\ task.pc = "done"
    /\ sw' = [sw EXCEPT !.wg = @ - 1]
    /\ task' = [task EXCEPT !.pc = "stop"]
    /\ UNCHANGED <<users, trace>>
    /\ UNCHANGED <<mvars, hvars, rvars, cvars>>

\* then the deferred w.ticker.Stop().
tickerStop ==
    /\ ~Crashed
    /\ task.pc = "stop"
    /\ sw' = [sw EXCEPT !.ticker = "stopped"]
    /\ task' = [task EXCEPT !.pc = "ended"]
    /\ UNCHANGED <<users, trace>>
    /\ UNCHANGED <<mvars, hvars, rvars, cvars>>

\* The interval has passed: the ticker sends on its channel, which holds one
\* tick; a tick that finds the channel full is dropped.
TickerFire ==
    /\ ~Crashed
    /\ sw.ticker = "on"
    /\ sw.tickC = 0
    /\ sw.fired < MaxTicks
    /\ sw' = [sw EXCEPT !.tickC = 1, !.fired = @ + 1]
    /\ UNCHANGED <<task, users, trace>>
    /\ UNCHANGED <<mvars, hvars, rvars, cvars>>

\* The context given to Watch is cancelled.
CancelCtx ==
    /\ ~Crashed
    /\ ~sw.ctxDone
    /\ sw' = [sw EXCEPT !.ctxDone = TRUE]
    /\ UNCHANGED <<task, users, trace>>
    /\ UNCHANGED <<mvars, hvars, rvars, cvars>>

InitWatch ==
    /\ NoMulti
    /\ NoHandle
    /\ NoCluster
    /\ NoServer
    /\ sw = NewStatsWatcher
    /\ task = NoTask
    /\ users = [p \in Callers |-> IdleUser]
    /\ trace = <<>>

\* A step of goroutine p inside Watch or Close.
UserStep(p) ==
    \/ watchTicker(p)
    \/ watchMake(p)
    \/ watchAdd(p)
    \/ watchGo(p)
    \/ WatchReturn(p)
    \/ closeChan(p)
    \/ closeWait(p)
    \/ OnceWake(p)
    \/ Return(p)

\* A step of watchAsync other than leaving the select by a ready case.
TaskStep ==
    \/ watchAsyncTick
    \/ watchAsyncStats
    \/ watchAsyncFn
    \/ wgDone
    \/ tickerStop

NextWatch ==
    \/ \E p \in Callers : Watch(p)
    \/ \E p \in Callers : WatcherClose(p)
    \/ \E p \in Callers : UserStep(p)
    \/ TaskStep
    \/ watchAsyncClosed
    \/ watchAsyncCtx
    \/ TickerFire
    \/ CancelCtx

SpecWatch == InitWatch /\ [][NextWatch]_vars

\* The goroutines are scheduled, and a select whose case stays ready or
\* becomes ready again and again ends up taking it (the runtime picks among
\* the ready cases at random).
SpecWatchFair ==
    /\ SpecWatch
    /\ \A p \in Callers : WF_vars(UserStep(p))
    /\ WF_vars(TaskStep)
    /\ SF_vars(watchAsyncClosed)
    /\ SF_vars(watchAsyncCtx)

(***************************************************************************)
(* Properties of the StatsWatcher.                                         *)
(***************************************************************************)
\* watchAsync has left its loop: it makes no Stats call and calls no sink.
Stopped == task.pc \in {"done", "stop", "ended"}

\* Goroutine p is in a Watch call that found the Once already taken.
SecondWatch(p) ==
    users[p].call = "Watch" /\ users[p].pc \in {"onceWait", "return"}

\* C24: whatever Watch and Close calls are made and however they interleave,
\* one go statement at most is ever executed; a Watch call that is not the
\* first changes nothing of the watcher, of its task or of what was polled;
\* the sink called is always that of the Watch that started the task; and a
\* task that has stopped stays stopped, its ticker too.
C24_OneTask ==
    /\ [](/\ sw.started <= 1
          /\ \A n \in 1..Len(trace) : trace[n].ev = "sink" => trace[n].fn = task.fn)
    /\ [][ /\ task.pc # "none" => task'.fn = task.fn
           /\ Stopped => Stopped'
           /\ sw.ticker = "stopped" => sw'.ticker = "stopped"
           /\ \A p \in Callers :
                /\ (users[p].pc = "idle" /\ users'[p].call = "Watch"
                        /\ sw.watchOnce # "new") =>
                      SecondWatch(p)' /\ sw' = sw /\ task' = task /\ trace' = trace
                /\ (SecondWatch(p) /\ users'[p] # users[p]) =>
                      sw' = sw /\ task' = task /\ trace' = trace
         ]_vars

\* g2's Watch returns having done nothing: the task that g1's Watch started
\* has polled with g1's sink and has ended.
C24_Witness ==
    /\ SecondWatch("g2")
    /\ users["g2"].pc = "return"
    /\ task.pc = "ended"
    /\ task.fn = "g1"
    /\ sw.started = 1
    /\ \E n \in 1..Len(trace) : trace[n].ev = "sink"

\* C25: Close may be called in any state of the watcher; no Close call
\* panics, and once a Close call has closed the channel and come back from
\* its wait, the task is not polling: it has acknowledged.
C25_CloseAnyState ==
    /\ \A p \in Callers : users[p].pc # "panic"
    /\ sw.closeOnce = "done" => task.pc \notin {"select", "stats", "fn"}

\* A Close call that was made after a Watch call had returned has returned.
LateClosed == \E n \in 1..Len(trace) : trace[n].ev = "Close"

\* C26: once a Close call made after Watch had returned has itself returned,
\* watchAsync has left its loop, and no Stats call and no sink invocation is
\* made any more.
C26_ClosedMeansStopped ==
    /\ [](LateClosed => Stopped)
    /\ [][LateClosed => trace' = trace]_vars

IsPoll(e) == e.ev \in {"Stats", "sink"}

\* The Stats calls and sink invocations made so far, in order.
Polls == SelectSeq(trace, IsPoll)

\* Ticks the task has taken from the ticker's channel.
Handled == sw.fired - sw.tickC

\* C27: for each tick handled the task calls Stats once and then the sink
\* once, with the stats and the error that call returned, an error included;
\* nothing is called a second time for a tick, and after the sink the task
\* is back at its select whatever Stats returned, where the next tick is
\* handled in the same way.
C27_OnePollPerTick ==
    /\ [](/\ \A n \in 1..Len(Polls) :
                /\ Polls[n].ev = (IF n % 2 = 1 THEN "Stats" ELSE "sink")
                /\ n % 2 = 0 => Polls[n].res = Polls[n - 1].res
          /\ task.pc \in {"select", "done", "stop", "ended"} => Len(Polls) = 2 * Handled
          /\ task.pc = "stats" => Len(Polls) = 2 * Handled - 2
          /\ task.pc = "fn" => Len(Polls) = 2 * Handled - 1
          /\ task.pc = "none" => Len(Polls) = 0 /\ Handled = 0)
    /\ [][ /\ (task.pc = "fn" /\ task' # task) => task'.pc = "select"
           /\ (task.pc = "select" /\ sw.tickC = 1 /\ task'.pc = "stats") =>
                 sw'.tickC = 0 /\ trace' = trace
         ]_vars

\* Stats failed at the first tick: the sink was given the error, and the
\* second tick has been handled like the first, with a nil error.
C27_Witness ==
    /\ Len(Polls) = 4
    /\ Polls[1].res.err # Nil
    /\ Polls[2].res.err # Nil
    /\ Polls[4].res.err = Nil
    /\ task.pc = "select"

\* The task makes no call any more: it has left its loop, or the program
\* has ended in a panic.
Terminated == Stopped \/ Crashed

\* C28: once the context given to Watch is cancelled, a task that has been
\* started terminates, with no Close call needed; after it has terminated no
\* Stats call and no sink invocation is made; and when it has ended, a Close
\* call that reaches w.wg.Wait() finds the counter at zero and does not wait.
C28_CancelStops ==
    /\ (sw.ctxDone /\ task.pc # "none") ~> Terminated
    /\ [][Stopped => Polls' = Polls]_vars
    /\ [](task.pc \in {"stop", "ended"} => sw.wg = 0)

\* The context was cancelled after one poll and the task has ended on it
\* (the channel is still open); a Close called since is about to close the
\* channel and will find the WaitGroup at zero.
C28_Witness ==
    /\ sw.ctxDone
    /\ task.pc = "ended"
    /\ sw.closed = "open"
    /\ sw.wg = 0
    /\ Len(Polls) = 2
    /\ \E p \in Callers : users[p].pc = "close" /\ users[p].late

(***************************************************************************)
(* A Redis6 / Redis7 cache over a single-node server, called directly.     *)
(* The server holds one key, whose lifetime it counts in milliseconds, and *)
(* answers INFO with a report of `marker:digits` lines.  The bytes of the  *)
(* report are modelled as sequences of one-character strings.              *)
(***************************************************************************)
Millisecond == 1000000

\* The time that passes in one step of the server's clock, in milliseconds.
ClockStep == 250

\* Lifetimes given to Save, as durations: 500ms, 1s, 2s.
RedisLifetimes == {500 * Millisecond, Second, 2 * Second}

DigitChars == <<"0", "1", "2", "3", "4", "5", "6", "7", "8", "9">>

IsDigit(c) == \E d \in 1..10 : DigitChars[d] = c

DigitValue(c) == (CHOOSE d \in 1..10 : DigitChars[d] = c) - 1

\* The decimal digits of n >= 0, as the server writes them.
RECURSIVE FormatInt(_)
FormatInt(n) ==
    IF n < 10 THEN <<DigitChars[n + 1]>>
    ELSE Append(FormatInt(n \div 10), DigitChars[(n % 10) + 1])

\* strconv.ParseInt(s, 10, 64) with its error dropped: 0 for the empty string.
RECURSIVE ParseInt(_)
ParseInt(s) ==
    IF s = <<>> THEN 0
    ELSE 10 * ParseInt(SubSeq(s, 1, Len(s) - 1)) + DigitValue(s[Len(s)])

\* The markers of the report the cache looks for (database 0).
Markers == StatsKeyPrefixes(FALSE, 0)

Absent == -1

\* What the server may have to say under each marker (Absent: no such line).
FactValues ==
    [ m \in {Markers[n] : n \in 1..Len(Markers)} |->
        CASE m = "used_memory:" -> {Absent, 7}
          [] m = "maxmemory:" -> {Absent, 0, 25}
          [] m = "total_system_memory:" -> {Absent, 90}
          [] m = "keyspace_hits:" -> {Absent, 12}
          [] m = "db0:keys=" -> {Absent, 3}
          [] OTHER -> {0} ]

\* A line of the report: the marker, the digits, and what follows them.
InfoLine(m, n) ==
    [key |-> m, text |-> FormatInt(n) \o (IF m = "db0:keys=" THEN <<",">> ELSE <<"\r">>)]

\* The INFO reply for the given facts.
RECURSIVE InfoReport(_, _)
InfoReport(facts, n) ==
    IF n > Len(Markers) THEN <<>>
    ELSE (IF facts[Markers[n]] = Absent THEN <<>>
          ELSE <<InfoLine(Markers[n], facts[Markers[n]])>>)
         \o InfoReport(facts, n + 1)

\* bytes.Index(info, keyPrefix) over the lines: the first line that starts
\* with the prefix, 0 if there is none.
Index(info, keyPrefix) ==
    IF \E n \in 1..Len(info) : info[n].key = keyPrefix
    THEN CHOOSE n \in 1..Len(info) :
            /\ info[n].key = keyPrefix
            /\ \A k \in 1..(n - 1) : info[k].key # keyPrefix
    ELSE 0

\* The digits that follow the prefix, up to the first other byte (20 at most).
RECURSIVE Digits(_)
Digits(text) ==
    IF text = <<>> \/ ~IsDigit(text[1]) THEN <<>>
    ELSE <<text[1]>> \o Digits(SubSeq(text, 2, Len(text)))

ExtractedDigits(text) ==
    IF Len(Digits(text)) > 20 THEN SubSeq(Digits(text), 1, 20) ELSE Digits(text)

\* case redisInfoPrefixMaxMem of the switch: the test is on the field.
SetMaxMem(stats, infoIntValue) ==
    IF stats.MaxMemory > 0 THEN [stats EXCEPT !.MaxMemory = infoIntValue] ELSE stats

\* The switch on keyPrefix.
SetField(stats, keyPrefix, infoIntValue) ==
    CASE keyPrefix = "used_memory:" -> [stats EXCEPT !.Memory = infoIntValue]
      [] keyPrefix = "maxmemory:" -> SetMaxMem(stats, infoIntValue)
      [] keyPrefix = "total_system_memory:" ->
            IF stats.MaxMemory = 0 THEN [stats EXCEPT !.MaxMemory = infoIntValue] ELSE stats
      [] keyPrefix = "evicted_keys:" -> [stats EXCEPT !.Evicted = infoIntValue]
      [] keyPrefix = "expired_keys:" -> [stats EXCEPT !.Expired = infoIntValue]
      [] keyPrefix = "keyspace_hits:" -> [stats EXCEPT !.Hits = infoIntValue]
      [] keyPrefix = "keyspace_misses:" -> [stats EXCEPT !.Misses = infoIntValue]
      [] OTHER -> [stats EXCEPT !.Keys = infoIntValue]

\* parseInfoStats: the loop over keyPrefixes, from prefix n on.
RECURSIVE parseInfoStatsFrom(_, _, _, _)
parseInfoStatsFrom(info, keyPrefixes, n, stats) ==
    IF n > Len(keyPrefixes) THEN stats
    ELSE LET at == Index(info, keyPrefixes[n])
         IN  parseInfoStatsFrom(info, keyPrefixes, n + 1,
                IF at = 0 THEN stats
                ELSE SetField(stats, keyPrefixes[n],
                              ParseInt(ExtractedDigits(info[at].text))))

parseInfoStats(info, keyPrefixes) == parseInfoStatsFrom(info, keyPrefixes, 1, ZeroStats)

\* The key on the server: ms is the lifetime left in milliseconds, 0 for a
\* key that does not expire.
NoKey == [has |-> FALSE, ms |-> 0]

NoAnswer == [seq |-> 0, call |-> "none", ttl |-> 0, err |-> Nil, stats |-> ZeroStats]

\* The result of call number seq + 1 on the cache.
Answer(call, t, err, stats) ==
    [seq |-> 1 - answer.seq, call |-> call, ttl |-> t, err |-> err, stats |-> stats]

\* The server's reply to TTL: -2 no such key, -1 no expiry, else the
\* lifetime left rounded to the nearest second.
ServerTTL(key) ==
    IF ~key.has THEN -2
    ELSE IF key.ms = 0 THEN -1
    ELSE (key.ms + 500) \div 1000

\* The client's DurationCmd: -2 and -1 as they are, else seconds as a
\* time.Duration.
DurationReply(n) == IF n \in {-2, -1} THEN n ELSE n * Second

\* Redis6.Save / Redis7.Save: Del for a negative expire, else Set; the
\* command may fail.
RedisSaveCall ==
    \E expire \in {-1, NoExpire} \cup RedisLifetimes, e \in {Nil, BackendErr(1)} :
        /\ srv' = IF e # Nil THEN srv
                  ELSE IF expire < 0 THEN [srv EXCEPT !.key = NoKey]
                  ELSE [srv EXCEPT !.key = [has |-> TRUE, ms |-> expire \div Millisecond]]
        /\ answer' = Answer("Save", 0, e, ZeroStats)
        /\ UNCHANGED <<mvars, hvars, wvars, cvars>>

\* Redis6.TTL / Redis7.TTL.
RedisTTLCall ==
    \E e \in {Nil, BackendErr(1)} :
        LET r == RedisTTLResult(e, IF e = Nil THEN DurationReply(ServerTTL(srv.key)) ELSE 0)
        IN  /\ answer' = Answer("TTL", r.ttl, r.err, ZeroStats)
            /\ UNCHANGED srv
            /\ UNCHANGED <<mvars, hvars, wvars, cvars>>

\* Redis6.Stats / Redis7.Stats on a single node: INFO, then parseInfoStats.
RedisStatsCall ==
    \E e \in {Nil, BackendErr(1)} :
        /\ answer' = Answer("Stats", 0, e,
                            IF e # Nil THEN ZeroStats
                            ELSE parseInfoStats(srv.info, StatsKeyPrefixes(FALSE, 0)))
        /\ UNCHANGED srv
        /\ UNCHANGED <<mvars, hvars, wvars, cvars>>

\* Time passes on the server: the key's lifetime shrinks, and the key goes
\* when nothing is left of it.
ServerClock ==
    /\ srv.key.has
    /\ srv.key.ms > 0
    /\ srv' = [srv EXCEPT !.key = IF @.ms > ClockStep
                                  THEN [@ EXCEPT !.ms = @ - ClockStep]
                                  ELSE NoKey]
    /\ UNCHANGED answer
    /\ UNCHANGED <<mvars, hvars, wvars, cvars>>

InitRedis ==
    /\ NoMulti
    /\ NoHandle
    /\ NoCluster
    /\ NoWatcher
    /\ \E mem \in FactValues["used_memory:"], max \in FactValues["maxmemory:"],
          total \in FactValues["total_system_memory:"],
          hits \in FactValues["keyspace_hits:"], keys \in FactValues["db0:keys="] :
          LET facts == [ m \in DOMAIN FactValues |->
                           CASE m = "used_memory:" -> mem
                             [] m = "maxmemory:" -> max
                             [] m = "total_system_memory:" -> total
                             [] m = "keyspace_hits:" -> hits
                             [] m = "db0:keys=" -> keys
                             [] OTHER -> CHOOSE v \in FactValues[m] : TRUE ]
          IN  srv = [key |-> NoKey, facts |-> facts, info |-> InfoReport(facts, 1)]
    /\ answer = NoAnswer

NextRedis ==
    \/ RedisSaveCall
    \/ RedisTTLCall
    \/ RedisStatsCall
    \/ ServerClock

SpecRedis == InitRedis /\ [][NextRedis]_vars

(***************************************************************************)
(* Properties of the Redis cache over a single node.                       *)
(***************************************************************************)
\* The step is a call of the method on the cache.
RedisCall(name) == answer'.seq # answer.seq /\ answer'.call = name

\* What the report says under marker m: its value, 0 if the line is absent.
Fact(m) == IF srv.facts[m] = Absent THEN 0 ELSE srv.facts[m]

\* C29: a Stats call on a single node that gets the report returns as
\* MaxMemory the report's maxmemory when that is greater than 0, and else
\* its total_system_memory; every other field is the value under its marker,
\* and 0 if the report has no line for it.
C29_MaxMemory ==
    [][ (RedisCall("Stats") /\ answer'.err = Nil) =>
          /\ answer'.stats.MaxMemory =
                (IF Fact("maxmemory:") > 0 THEN Fact("maxmemory:")
                 ELSE Fact("total_system_memory:"))
          /\ answer'.stats.Memory = Fact("used_memory:")
          /\ answer'.stats.Hits = Fact("keyspace_hits:")
          /\ answer'.stats.Misses = Fact("keyspace_misses:")
          /\ answer'.stats.Evicted = Fact("evicted_keys:")
          /\ answer'.stats.Expired = Fact("expired_keys:")
          /\ answer'.stats.Keys = Fact("db0:keys=")
      ]_vars

\* C30 as stated: a TTL call returns a negative duration with a nil error
\* exactly when the key is absent, 0 exactly when the key exists without
\* expiration, a positive duration when it exists with one, and a negative
\* duration with the error when the query fails.
C30_AsStated ==
    [][ RedisCall("TTL") =>
          IF answer'.err # Nil THEN answer'.ttl < 0
          ELSE /\ (answer'.ttl < 0) <=> ~srv.key.has
               /\ (answer'.ttl = NoExpire) <=> (srv.key.has /\ srv.key.ms = 0)
               /\ (answer'.ttl > 0) <=> (srv.key.has /\ srv.key.ms > 0)
      ]_vars

\* C30: a TTL call whose query fails returns -1 with the error; otherwise it
\* returns, with a nil error, a negative duration when the key is absent or
\* has less than half a second left (the server says 0 seconds), NoExpire
\* exactly when the key exists without expiration, and else the lifetime
\* left as the server rounds it to whole seconds, which is positive and
\* within half a second of the lifetime left.
C30_TTLMapping ==
    [][ RedisCall("TTL") =>
          IF answer'.err # Nil
          THEN answer'.ttl = -1 /\ answer'.err = BackendErr(1)
          ELSE /\ (answer'.ttl < 0) <=>
                     (~srv.key.has \/ (srv.key.ms > 0 /\ srv.key.ms < 500))
               /\ (answer'.ttl = NoExpire) <=> (srv.key.has /\ srv.key.ms = 0)
               /\ (srv.key.has /\ srv.key.ms >= 500) =>
                     /\ answer'.ttl = ((srv.key.ms + 500) \div 1000) * Second
                     /\ answer'.ttl > 0
                     /\ answer'.ttl - srv.key.ms * Millisecond <= 500 * Millisecond
                     /\ srv.key.ms * Millisecond - answer'.ttl <= 500 * Millisecond
      ]_vars

\* TTL has returned a negative duration and a nil error for a key that is
\* on the server with a quarter of a second to live.
C30_Witness ==
    /\ answer.call = "TTL"
    /\ answer.ttl < 0
    /\ answer.err = Nil
    /\ srv.key.has
    /\ srv.key.ms = 250

(***************************************************************************)
(* Specification: Stats of a Redis6 / Redis7 cache over a cluster.         *)
(* ForEachMaster and ForEachSlave run the callback in one goroutine per    *)
(* node, wait for all of them, and return the first error sent to errCh.   *)
(* Every INFO command and every atomic.AddInt64 is one step.               *)
(***************************************************************************)
MaxNodes == 3

Nodes == 1..MaxNodes

\* What node n has to say under each marker.
NodeFacts(n) ==
    [ m \in DOMAIN FactValues |->
        CASE m = "used_memory:" -> n
          [] m = "maxmemory:" -> IF n = 1 THEN 25 ELSE Absent
          [] m = "total_system_memory:" -> 10 + n
          [] m = "evicted_keys:" -> 2 * n
          [] m = "expired_keys:" -> 3 * n
          [] m = "keyspace_hits:" -> 4 * n
          [] m = "keyspace_misses:" -> 5 * n
          [] OTHER -> 6 * n ]

\* The markers of the section "stats" of the report.
StatsSection == {"evicted_keys:", "expired_keys:", "keyspace_hits:", "keyspace_misses:"}

\* client.Info(ctx) replies with every section, client.Info(ctx, "stats")
\* with that section alone.
NodeInfoReply(n, section) ==
    InfoReport([ m \in DOMAIN FactValues |->
                   IF section = "stats" /\ m \notin StatsSection THEN Absent
                   ELSE NodeFacts(n)[m] ], 1)

clusterReplicaKeyPrefixes == << "keyspace_hits:", "keyspace_misses:" >>

\* The fields the callback of ForEachMaster adds, in the order of the code,
\* and those the callback of ForEachSlave adds.
MasterAdds == << "Memory", "MaxMemory", "Hits", "Misses", "Expired", "Evicted" >>

ReplicaAdds == << "Hits", "Misses" >>

AtomicAddInt64_Store(stats, field, delta) == [stats EXCEPT ![field] = delta]

\* atomic.AddInt64(&stats.field, delta).
AtomicAddInt64(stats, field, delta) == [stats EXCEPT ![field] = @ + delta]

NoTaskAt == [pc |-> "off", k |-> 0, parsed |-> ZeroStats]

NoResult == [set |-> FALSE, stats |-> ZeroStats, err |-> Nil]

\* The goroutines ForEachMaster / ForEachSlave start: one per node.
Started(nodes) == [n \in Nodes |-> IF n \in nodes THEN [NoTaskAt EXCEPT !.pc = "info"] ELSE NoTaskAt]

\* Stats in cluster mode enters getClusterStats: `var stats Stats`, then
\* ForEachMaster.
ClusterStats ==
    /\ cluster.phase \in {"idle", "done"}
    /\ cluster' = [cluster EXCEPT !.phase = "masters", !.stats = ZeroStats, !.errCh = Nil,
                                  !.tasks = Started(cluster.masters),
                                  !.queried = {}, !.failed = {}, !.result = NoResult]
    /\ UNCHANGED saver
    /\ UNCHANGED <<mvars, hvars, wvars, rvars>>

\* The callback's INFO command on node n, and parseInfoStats on the reply;
\* an error goes to errCh if no error is there yet.
NodeInfo(n) ==
    /\ cluster.tasks[n].pc = "info"
    /\ \E e \in {Nil, BackendErr(n)} :
          LET section == IF cluster.phase = "masters" THEN "all" ELSE "stats"
              prefixes == IF cluster.phase = "masters"
                          THEN StatsKeyPrefixes(TRUE, 0) ELSE clusterReplicaKeyPrefixes
          IN  cluster' =
                [cluster EXCEPT
                   !.queried = @ \cup {<<n, section>>},
                   !.failed = IF e # Nil THEN @ \cup {n} ELSE @,
                   !.errCh = IF e # Nil /\ @ = Nil THEN e ELSE @,
                   !.tasks[n] =
                      IF e # Nil THEN [@ EXCEPT !.pc = "done"]
                      ELSE [pc |-> "add", k |-> 1,
                            parsed |-> parseInfoStats(NodeInfoReply(n, section), prefixes)]]
    /\ UNCHANGED saver
    /\ UNCHANGED <<mvars, hvars, wvars, rvars>>

\* The callback's next atomic.AddInt64 for node n.
NodeAdd(n) ==
    /\ cluster.tasks[n].pc = "add"
    /\ LET adds == IF cluster.phase = "masters" THEN MasterAdds ELSE ReplicaAdds
           t == cluster.tasks[n]
       IN  cluster' =
             [cluster EXCEPT
                !.stats = AtomicAddInt64(@, adds[t.k], t.parsed[adds[t.k]]),
                !.tasks[n] = IF t.k = Len(adds) THEN [@ EXCEPT !.pc = "done"]
                             ELSE [@ EXCEPT !.k = @ + 1]]
    /\ UNCHANGED saver
    /\ UNCHANGED <<mvars, hvars, wvars, rvars>>

\* wg.Wait() has returned: no goroutine of the iteration is still running.
Joined == \A n \in Nodes : cluster.tasks[n].pc \in {"off", "done"}

ReplicaNodes_IfReadOnly(c) == IF c.readOnly THEN c.replicas ELSE {}

\* The nodes ForEachSlave visits.
ReplicaNodes(c) == c.replicas

ClusterReturn_Partial(err, stats) == [set |-> TRUE, stats |-> stats, err |-> err]

\* `if err != nil { return Stats{}, err }` ... `return stats, nil`.
ClusterReturn(err, stats) ==
    [set |-> TRUE, stats |-> IF err # Nil THEN ZeroStats ELSE stats, err |-> err]

\* ForEachMaster returns: with an error Stats returns, without one it goes
\* on to ForEachSlave.
ForEachMasterReturn ==
    /\ cluster.phase = "masters"
    /\ Joined
    /\ cluster' =
         IF cluster.errCh # Nil
         THEN [cluster EXCEPT !.phase = "done",
                              !.result = ClusterReturn(cluster.errCh, cluster.stats)]
         ELSE [cluster EXCEPT !.phase = "replicas",
                              !.tasks = Started(ReplicaNodes(cluster))]
    /\ UNCHANGED saver
    /\ UNCHANGED <<mvars, hvars, wvars, rvars>>

\* ForEachSlave returns, and Stats with it.
ForEachSlaveReturn ==
    /\ cluster.phase = "replicas"
    /\ Joined
    /\ cluster' = [cluster EXCEPT !.phase = "done",
                                  !.result = ClusterReturn(cluster.errCh, cluster.stats)]
    /\ UNCHANGED saver
    /\ UNCHANGED <<mvars, hvars, wvars, rvars>>

\* A cluster of MaxNodes nodes, one primary at least, with or without
\* read-scaling (RedisConfig.ReadOnly).
InitCluster ==
    /\ NoMulti
    /\ NoHandle
    /\ NoWatcher
    /\ NoServer
    /\ saver = IdleSaver
    /\ \E masters \in (SUBSET Nodes) \ {{}}, readOnly \in BOOLEAN :
          cluster = [masters |-> masters, replicas |-> Nodes \ masters,
                     readOnly |-> readOnly, phase |-> "idle", stats |-> ZeroStats,
                     errCh |-> Nil, tasks |-> Started({}), queried |-> {},
                     failed |-> {},
                     result |-> NoResult]

NextCluster ==
    \/ ClusterStats
    \/ \E n \in Nodes : NodeInfo(n)
    \/ \E n \in Nodes : NodeAdd(n)
    \/ ForEachMasterReturn
    \/ ForEachSlaveReturn

SpecCluster == InitCluster /\ [][NextCluster]_vars

(***************************************************************************)
(* Properties of Stats over a cluster.                                     *)
(***************************************************************************)
\* What parseInfoStats makes of the reply of node n, asked as a primary
\* ("all") or as a secondary ("stats").
Parsed(n, section) ==
    parseInfoStats(NodeInfoReply(n, section),
                   IF section = "all" THEN StatsKeyPrefixes(TRUE, 0)
                   ELSE clusterReplicaKeyPrefixes)

RECURSIVE ParsedSum(_, _, _)
ParsedSum(nodes, section, f) ==
    IF nodes = {} THEN 0
    ELSE LET n == CHOOSE x \in nodes : TRUE
         IN  Parsed(n, section)[f] + ParsedSum(nodes \ {n}, section, f)

StatsSucceeded == cluster.result.set /\ cluster.result.err = Nil

\* C31: in cluster mode a successful Stats returns, for Memory, MaxMemory,
\* Expired and Evicted, the sum of the values parsed from every primary
\* node, and for Hits and Misses the sum over every queried node, whatever
\* the interleaving of the per-node goroutines; Keys is always 0.
C31_ClusterSums ==
    /\ cluster.result.stats.Keys = 0
    /\ StatsSucceeded =>
          /\ \A f \in {"Memory", "MaxMemory", "Expired", "Evicted"} :
                cluster.result.stats[f] = ParsedSum(cluster.masters, "all", f)
          /\ \A f \in {"Hits", "Misses"} :
                cluster.result.stats[f] =
                    ParsedSum({q[1] : q \in {x \in cluster.queried : x[2] = "all"}}, "all", f)
                    + ParsedSum({q[1] : q \in {x \in cluster.queried : x[2] = "stats"}}, "stats", f)
          /\ {q[1] : q \in {x \in cluster.queried : x[2] = "all"}} = cluster.masters

\* Stats has succeeded on a cluster of two primaries and a secondary, all
\* of which have keys and counters to report.
C31_Witness ==
    /\ StatsSucceeded
    /\ Cardinality(cluster.masters) = 2
    /\ Cardinality(cluster.replicas) = 1
    /\ cluster.result.stats.Memory > 0
    /\ cluster.result.stats.Hits > ParsedSum(cluster.masters, "all", "Hits")
    /\ \A n \in Nodes : NodeFacts(n)["db0:keys="] > 0

\* C32: in cluster mode, if the report of any queried node fails, Stats
\* returns the all-zero Stats and the error of a node that failed, not the
\* sums of the nodes that answered; without a failure the error is nil.
C32_ClusterFailFast ==
    cluster.result.set =>
        IF cluster.failed # {}
        THEN /\ cluster.result.stats = ZeroStats
             /\ \E n \in cluster.failed : cluster.result.err = BackendErr(n)
        ELSE cluster.result.err = Nil

\* Stats has returned the error of a secondary that failed after the
\* primaries and another secondary had been summed.
C32_Witness ==
    /\ cluster.result.set
    /\ cluster.result.err \in {BackendErr(n) : n \in cluster.replicas}
    /\ cluster.result.stats = ZeroStats
    /\ cluster.stats.Memory > 0
    /\ cluster.stats.Hits > ParsedSum(cluster.masters, "all", "Hits")

RepliesOf(section) == {q[1] : q \in {x \in cluster.queried : x[2] = section}}

\* C33 as stated: the secondaries are queried when read-scaling is enabled,
\* and only the primaries are queried when it is not.
C33_AsStated ==
    StatsSucceeded =>
        /\ RepliesOf("all") = cluster.masters
        /\ RepliesOf("stats") = IF cluster.readOnly THEN cluster.replicas ELSE {}

\* C33: in cluster mode a successful Stats has queried every primary for
\* the whole report and every secondary for the section "stats", whether
\* read-scaling is enabled or not; while the primaries are being queried
\* no secondary has been, and a result with a nil error has no failed node.
C33_ReplicasAlways ==
    /\ StatsSucceeded =>
          /\ RepliesOf("all") = cluster.masters
          /\ RepliesOf("stats") = cluster.replicas
          /\ cluster.failed = {}
    /\ cluster.phase = "masters" => RepliesOf("stats") = {}
    /\ RepliesOf("all") \subseteq cluster.masters
    /\ RepliesOf("stats") \subseteq cluster.replicas

\* Stats has succeeded without read-scaling on a cluster that has a
\* secondary, whose hits are in the sum.
C33_Witness ==
    /\ StatsSucceeded
    /\ ~cluster.readOnly
    /\ cluster.replicas # {}
    /\ RepliesOf("stats") = cluster.replicas
    /\ cluster.result.stats.Hits > ParsedSum(cluster.masters, "all", "Hits")

(***************************************************************************)
(* Specification: a Memory or a Redis built by NewMemory / NewRedis6 /     *)
(* NewRedis7, two goroutines calling it.  No observer is registered: the   *)
(* application's configuration may be reloaded, nothing calls the cache.   *)
(***************************************************************************)
InitDirect == InitHandle(NilMutex)

\* The configuration is reloaded; the cache has no observer to be called.
ReloadUnobserved ==
    /\ \E cfg \in [DOMAIN CfgValues -> UNION { CfgValues[k] : k \in DOMAIN CfgValues }] :
         /\ \A k \in DOMAIN CfgValues : cfg[k] \in CfgValues[k]
         /\ \A k \in DOMAIN CfgValues \ ReadKeys(kind) : cfg[k] = config[k]
         /\ cfg # config
         /\ config' = cfg
    /\ UNCHANGED <<kind, handle, mu, insts, proc, rc>>
    /\ UNCHANGED <<mvars, wvars, rvars, cvars>>

NextDirect ==
    \/ \E p \in Callers : RLock(p)
    \/ \E p \in Callers : CallerStep(p)
    \/ ReloadUnobserved
    \/ HTick

SpecDirect == InitDirect /\ [][NextDirect]_vars

\* C34: a cache built by direct construction has no mutex, so rLock and
\* rUnlock do nothing and no call ever waits; its client and the settings
\* taken at construction stay the same whatever the configuration becomes.
C34_DirectIsImmutable ==
    /\ mu = NilMutex
    /\ \A p \in Callers : proc[p].pc # "rWait"
    /\ Len(insts) = 1
    /\ handle = NewHandle(kind, InitialConfig)
    /\ insts[1].size = NewClient(kind, InitialConfig).size
    /\ insts[1].addrs = NewClient(kind, InitialConfig).addrs
    /\ rc = IdleRc

\* Both goroutines are inside a call on the one client, one of them past
\* its rLock and the other in a call that has saved a value, after the
\* configuration has been reloaded with another size.
C34_Witness ==
    /\ kind = "Memory"
    /\ config # InitialConfig
    /\ \A p \in Callers : proc[p].pc \in {"use", "rUnlock"}
    /\ proc["g1"].op = "Save"
    /\ proc["g1"].pc = "rUnlock"
    /\ proc["g2"].pc = "use"
    /\ insts[handle.client].entries["k1"].has

(***************************************************************************)
(* Properties of the read-repair of Multi.Load.                            *)
(***************************************************************************)
\* Positions in log of the TTL queries of a Load that returned an error.
FailedTTLs == { j \in 1..Len(log) : log[j].call = "TTL" /\ log[j].err # Nil }

\* C35: when Multi.Load hits at index i > 0 and the winning backend's TTL
\* query returns an error, Load makes no further call: no Save on any
\* backend, and it returns the value with a nil error.
C35_TTLErrorSkipsRepair ==
    (op.name = "Load" /\ FailedTTLs # {}) =>
        /\ pc = "done"
        /\ \A j \in 1..Len(log) : log[j].call # "Save"
        /\ \A j \in FailedTTLs :
              /\ j = Len(log)
              /\ j - 1 \in Hits
              /\ log[j].idx = log[j - 1].idx
              /\ log[j].idx > 1
              /\ ret.val = log[j - 1].val
        /\ ret.val # NilVal
        /\ ret.err = Nil

\* Load has hit at the last backend after a miss and an error, and the TTL
\* query of that backend has failed.
C35_Witness ==
    /\ Done("Load")
    /\ Len(caches) = 3
    /\ Len(log) = 4
    /\ log[1].err = ErrNotFound
    /\ log[2].err = BackendErr(2)
    /\ log[3].err = Nil
    /\ log[4].call = "TTL" /\ log[4].idx = 3 /\ log[4].err = BackendErr(3)
    /\ ret.val = log[3].val

\* Positions in log of the write-back Saves of a Load.
WriteBacks == { j \in 1..Len(log) : op.name = "Load" /\ log[j].call = "Save" }

\* C36: the errors of the write-back Saves never reach the caller and
\* never stop the repair: after a hit at index w > 0 and a TTL query that
\* succeeded, a finished Load has called Save on each of w-1, ..., 0,
\* whichever of these calls failed, and returns the value with a nil error.
C36_RepairErrorsDropped ==
    Done("Load") =>
        \A h \in Hits :
            (log[h].idx > 1 /\ Len(log) > h /\ log[h + 1].err = Nil) =>
                /\ {log[j].idx : j \in WriteBacks} = 1..(log[h].idx - 1)
                /\ Cardinality(WriteBacks) = log[h].idx - 1
                /\ \A j \in WriteBacks : j > h + 1
                /\ ret.val = log[h].val
                /\ ret.err = Nil
                /\ ret.val # NilVal

\* Load has hit at the last backend and both write-backs have failed.
C36_Witness ==
    /\ Done("Load")
    /\ Len(caches) = 3
    /\ Len(log) = 6
    /\ log[3].err = Nil /\ log[3].idx = 3
    /\ log[4].call = "TTL" /\ log[4].err = Nil
    /\ log[5].call = "Save" /\ log[5].idx = 2 /\ log[5].err = BackendErr(2)
    /\ log[6].call = "Save" /\ log[6].idx = 1 /\ log[6].err = BackendErr(1)
    /\ ret.err = Nil
    /\ ret.val = log[3].val

\* C37: read-repair never removes data: every write-back Save of Multi.Load
\* carries the loaded value and a non-negative expiry, and leaves in the
\* backend it is made on every key that backend held.
C37_RepairKeepsData ==
    [][(pc = "LoadSave" /\ Len(log') > Len(log)) =>
          /\ log'[Len(log')].call = "Save"
          /\ log'[Len(log')].value = val
          /\ log'[Len(log')].expire >= 0
          /\ \A k \in StoreKeys : store[i][k].has => store'[i][k].has
      ]_vars

(***************************************************************************)
(* Properties of the reloadable caches: saved entries and clients.         *)
(***************************************************************************)
\* The entry of key k in the instance the struct holds.
LiveEntry(k) == insts[handle.client].entries[k]

\* The step is the client call of a Save, and the step is a tick of the clock.
StepOfSave ==
    \E p \in Callers : proc[p].pc = "use" /\ proc[p].op = "Save" /\ proc'[p] # proc[p]

StepOfClock == insts' # insts /\ UNCHANGED <<handle, mu, proc, rc>>

\* C38: a value that Memory.Save has put into the cache is not lost because
\* of a resize: the entry the cache holds for a key goes, or changes its
\* value, only by another Save of the key, by expiring, or at the swap to an
\* instance too small for it.  A Save that waits for the resize acts on the
\* new instance.
C38_SaveSurvivesResize ==
    [][kind = "Memory" =>
          /\ \A k \in StoreKeys :
                (LiveEntry(k).has /\ (~LiveEntry(k)'.has \/ LiveEntry(k)'.val # LiveEntry(k).val))
                    => \/ StepOfSave
                       \/ StepOfClock /\ LiveEntry(k).exp = 1
                       \/ /\ handle'.client # handle.client
                          /\ ~Fits(LiveEntry(k).val, insts'[handle'.client].size)
          /\ StepOfSave => /\ rc.pc \notin {"newCache", "iterNext", "copyTTL", "copySet",
                                            "setClient", "setMemSize", "Unlock"}
                           /\ \A n \in 1..Len(insts) :
                                 n # handle.client => insts'[n] = insts[n]
      ]_vars

\* The resize has ended and its Unlock is due: the new instance is the
\* cache's, it holds the value saved in the old one, and a Save that was
\* called during the resize waits in rLock.
C38_Witness ==
    /\ kind = "Memory"
    /\ rc.pc = "Unlock"
    /\ handle.client = 2
    /\ rc.oldClient = 1
    /\ insts[1].entries["k1"].has
    /\ LiveEntry("k1").has
    /\ LiveEntry("k1").val = insts[1].entries["k1"].val
    /\ proc["g1"].pc = "rWait" /\ proc["g1"].op = "Save"

\* No goroutine is inside a call and the observer is not running.
Quiet == rc.pc = "idle" /\ \A p \in Callers : proc[p].pc = "idle"

\* C39: every client a reloadable Redis cache creates is closed exactly
\* once: no client is closed both by Close and by the observer, and once
\* Close has returned and the reconfigurations have completed no client
\* remains open.
C39_ClosedExactlyOnce ==
    kind = "Redis" =>
        /\ \A n \in 1..Len(insts) : insts[n].closedBy # {"caller", "observer"}
        /\ (Quiet /\ \E n \in 1..Len(insts) : "caller" \in insts[n].closedBy)
              => \A n \in 1..Len(insts) : insts[n].closed

(***************************************************************************)
(* Specification: Multi over a Memory and two Redis, with two goroutines.  *)
(* The first one saves and loads as before; the second one calls           *)
(* Multi.Save with a negative expire once, while the first is idle or in   *)
(* a Load, and the first begins no other call from then on.                *)
(***************************************************************************)
DeletedKey == "k1"

\* The second goroutine calls Multi.Save(ctx, key, nil, -1).
SaverCall ==
    /\ saver.pc = "idle"
    /\ pc \in {"idle", "done", "Load", "LoadTTL", "LoadSave"}
    /\ saver' = [IdleSaver EXCEPT !.pc = "Save", !.idx = 1]
    /\ UNCHANGED cluster
    /\ UNCHANGED <<mvars, hvars, wvars, rvars>>

\* Multi.Save in the second goroutine: one iteration of its loop.
SaverSave ==
    /\ saver.pc = "Save"
    /\ \E out \in CacheSave(saver.idx, DeletedKey, NilVal, -1) :
        /\ store' = [store EXCEPT ![saver.idx] = out.st]
        /\ saver' = IF SaveMore(saver.idx, out.err)
                    THEN [saver EXCEPT !.mErr = SaveAdd(@, out.err), !.idx = @ + 1]
                    ELSE [saver EXCEPT !.mErr = SaveAdd(@, out.err), !.pc = "done",
                                       !.ret = SaveReturn(SaveAdd(saver.mErr, out.err))]
    /\ UNCHANGED cluster
    /\ UNCHANGED <<caches, pc, op, idx, i, mErr, val, ttl, mStats, ret, log>>
    /\ UNCHANGED <<hvars, wvars, rvars>>

InitRace == NewMulti([b \in 1..NumCaches |-> IF b = 1 THEN "Memory" ELSE "Redis"])

NextRace ==
    \/ saver.pc = "idle" /\ CallSave
    \/ saver.pc = "idle" /\ CallLoad
    \/ MultiSave
    \/ MultiLoad
    \/ MultiLoadTTL
    \/ MultiLoadSave
    \/ Tick
    \/ SaverCall
    \/ SaverSave

SpecRace == InitRace /\ [][NextRace]_vars

\* The calls of the finished Load all succeeded (a miss is an answer).
LoadClean == Done("Load") /\ \A j \in 1..Len(log) : log[j].err \in {Nil, ErrNotFound}

\* C40: when a Multi.Save of key k with a negative expire and a concurrent
\* Multi.Load of k have both returned and every backend call succeeded, no
\* backend holds k: read-repair does not bring the deleted key back.
C40_DeleteWins ==
    (saver.pc = "done" /\ saver.ret.err = Nil /\ LoadClean /\ op.key = DeletedKey) =>
        \A b \in 1..Len(caches) : ~store[b][DeletedKey].has

====
